---------------------------- MODULE Spec2Model ----------------------------
(***************************************************************************)
(* A state-machine model of the N-body force kernels of this repository:   *)
(* the node arena (src/src/utils/ds.h), the v5 parallel Barnes-Hut kernel  *)
(* (src/src/kernels/v5_parallel.c), the serial tree kernels v2/v3/v4, the  *)
(* brute-force kernel v1, the Morton sort and k-means (utils/kmeans.c).    *)
(*                                                                         *)
(* Numbers.  The code computes in IEEE doubles.  The model computes in     *)
(* exact integer arithmetic on a lattice: every input coordinate is a      *)
(* multiple of Unit, so that the 5% padding of the bounding box and every  *)
(* midpoint the builders compare against are integers.  A node's centre of *)
(* mass (pos_x, pos_y) is stored as the mass-weighted sums (mx, my) with   *)
(* pos_x = mx / mass, which turns the weighted-average recurrence of the   *)
(* code into mx' = mx + m * px; comparisons against pos_x are multiplied   *)
(* out by the (positive) mass.  Rounding of doubles is not modelled.       *)
(* A force value is the ordered sequence of the terms added to it.         *)
(***************************************************************************)
EXTENDS Integers, Sequences, FiniteSets, Bags, TLC

(***************************************************************************)
(* Bounds of the model.                                                    *)
(***************************************************************************)
MaxN == 3          \* largest particle count of the lattice inputs
GridMaxX == 2      \* lattice x coordinates are 0..GridMaxX (times Unit)
GridMaxY == 1      \* lattice y coordinates are 0..GridMaxY (times Unit)
MaxMass == 2       \* masses are 1..MaxMass
MaxThreads == 2    \* config.n_threads is 1..MaxThreads
MaxTheta == 1      \* config.theta_max is 0..MaxTheta
MaxCalls == 2      \* kernel calls per run
MaxCap == 5        \* arena capacities of the arena harness are 1..MaxCap
MantBits == 8      \* significant bits of the model's double

(***************************************************************************)
(* Scales (not bounds): Unit is the lattice pitch, a multiple of 20 * 8 so *)
(* that d * 0.05 and three levels of midpoints are integers.               *)
(***************************************************************************)
Unit == 20 * 8

NULL == 0          \* the null node pointer; node handles are 1, 2, ...
NoPID == 0 - 1     \* PID of an internal (or empty) node
Junk == 0 - 999999 \* content of memory that was never written

Quadrants == 0 .. 3

Min2(a, b) == IF a < b THEN a ELSE b

RECURSIVE SeqSum(_)
SeqSum(s) == IF s = << >> THEN 0 ELSE Head(s) + SeqSum(Tail(s))

\* F(v), with v evaluated once before F is applied: the argument of a
\* recursive call is fixed here so that it is not evaluated again at
\* every use.
Bind(F(_), v) == CHOOSE r \in {F(x) : x \in {v}} : TRUE

(***************************************************************************)
(* TNode (ds.h:20-27).  child maps the slot 0..3 to a node handle or NULL; *)
(* mx, my are pos_x * mass and pos_y * mass.                               *)
(***************************************************************************)
JunkNode ==
  [LB |-> Junk, RB |-> Junk, DB |-> Junk, UB |-> Junk,
   child |-> [q \in Quadrants |-> Junk],
   mx |-> Junk, my |-> Junk, mass |-> Junk, PID |-> Junk]

(***************************************************************************)
(* NodeArena (ds.h:36-66).  buffer is << >> for a NULL buffer, else a      *)
(* sequence of size slots; slot s (0-based) is buffer[s + 1] and the       *)
(* handle of &buffer[s] is s + 1.                                          *)
(***************************************************************************)
NullArena == [buffer |-> << >>, size |-> 0, used |-> 0]

init_arena(size) ==
  [buffer |-> [s \in 1 .. size |-> JunkNode], size |-> size, used |-> 0]

free_arena(a) == [a EXCEPT !.buffer = << >>]

\* reset_arena that leaves used alone.
reset_arena_keeps_used(a) == a

reset_arena(a) == [a EXCEPT !.used = 0]

\* arena_alloc without the capacity test of line 62.
arena_alloc_unchecked(a) ==
  [arena |-> [a EXCEPT !.used = a.used + 1], ret |-> a.used + 1]

\* arena_alloc: the new arena and the handle returned (NULL on failure).
arena_alloc(a) ==
  IF a.used < a.size
    THEN [arena |-> [a EXCEPT !.used = a.used + 1], ret |-> a.used + 1]
    ELSE [arena |-> a, ret |-> NULL]


(***************************************************************************)
(* The node store of one tree build.  T.a says whether the kernel builds   *)
(* in the arena (a_ptr != NULL) or with malloc; T.halt is "" while the     *)
(* process runs, "exit1" once it has called exit(1) and "segv" once it has *)
(* written through a null pointer; T.ret is the handle last returned.      *)
(***************************************************************************)
Mem(T) == IF T.a THEN T.arena.buffer ELSE T.heap

NodeAt(T, h) == Mem(T)[h]

SetNode(T, h, n) ==
  IF T.a THEN [T EXCEPT !.arena.buffer[h] = n]
         ELSE [T EXCEPT !.heap[h] = n]

\* Number of nodes of the tree under construction.
Live(T) == IF T.a THEN T.arena.used ELSE Len(T.heap)

\* 0.5 * (lo + hi): exact whenever lo + hi is even, which it is for every
\* node the builders split on the inputs of the model.
Mid(lo, hi) == (lo + hi) \div 2

\* The C truth value of a comparison.
B2I(b) == IF b THEN 1 ELSE 0

(***************************************************************************)
(* v5_parallel.c:19-54 create_new_TNode.  The allocation (lines 22-30),    *)
(* then every field is written (32-52).  A failed arena allocation prints  *)
(* the diagnostic and calls exit(1): T.halt = "exit1".                     *)
(***************************************************************************)
V5Bounds(index, LB, RB, DB, UB) ==
  LET mid_x == Mid(LB, RB)
      mid_y == Mid(DB, UB)
  IN  IF index = 0 - 1
        THEN [LB |-> LB, RB |-> RB, DB |-> DB, UB |-> UB]
        ELSE [LB |-> IF index = 2 \/ index = 3 THEN mid_x ELSE LB,
              RB |-> IF index = 2 \/ index = 3 THEN RB ELSE mid_x,
              DB |-> IF index = 1 \/ index = 3 THEN mid_y ELSE DB,
              UB |-> IF index = 1 \/ index = 3 THEN UB ELSE mid_y]

\* The fields create_new_TNode writes into the fresh node.
V5FreshNode(index, LB, RB, DB, UB) ==
  LET b == V5Bounds(index, LB, RB, DB, UB)
  IN  [LB |-> b.LB, RB |-> b.RB, DB |-> b.DB, UB |-> b.UB,
       child |-> [q \in Quadrants |-> NULL],
       mx |-> 0, my |-> 0, mass |-> 0, PID |-> NoPID]

\* The allocation without the test of lines 24-27: line 33 then writes
\* through the null pointer.
V5Alloc_nocheck(T) ==
  IF T.a
    THEN LET r == arena_alloc(T.arena)
         IN  IF r.ret = NULL
               THEN [T EXCEPT !.halt = "segv", !.ret = NULL]
               ELSE [T EXCEPT !.arena = r.arena, !.ret = r.ret]
    ELSE [T EXCEPT !.heap = Append(T.heap, JunkNode), !.ret = Len(T.heap) + 1]

\* Lines 21-30: the allocation with its failure test.
V5Alloc(T) ==
  IF T.a
    THEN LET r == arena_alloc(T.arena)
         IN  IF r.ret = NULL
               THEN [T EXCEPT !.halt = "exit1", !.ret = NULL]
               ELSE [T EXCEPT !.arena = r.arena, !.ret = r.ret]
    ELSE [T EXCEPT !.heap = Append(T.heap, JunkNode), !.ret = Len(T.heap) + 1]

create_new_TNode(T, index, LB, RB, DB, UB) ==
  LET T1 == V5Alloc(T)
  IN  IF T1.halt # ""
        THEN T1
        ELSE SetNode(T1, T1.ret, V5FreshNode(index, LB, RB, DB, UB))

(***************************************************************************)
(* v5_parallel.c:65-112 insert.  width < 1e-12 is width < 1 on the lattice *)
(* (every non-zero width of the model is at least 1); pos == tNode->pos is *)
(* px * mass = mx.                                                         *)
(***************************************************************************)
WidthTiny(width) == width < 1

\* Lines 80 and 101: the child slot of a position.
V5Index(gt_x, gt_y) == B2I(gt_y) + 2 * B2I(gt_x)

(***************************************************************************)
(* The arithmetic of double, with MantBits significant bits for the 53 of  *)
(* the build, rounding to nearest, ties to even.  MantBits is large enough *)
(* for every sum and product of lattice coordinates and masses to be exact *)
(* (as the 53 bits are for small integers); a coordinate that is not on    *)
(* the lattice is to it what 0.1 is to the 53 bits.  The lattice unit is   *)
(* the finest step kept: a quotient below 2^(MantBits-1) is rounded to a   *)
(* whole number of units.                                                  *)
(***************************************************************************)
RECURSIVE FBits(_)
FBits(v) == IF v = 0 THEN 0 ELSE 1 + FBits(v \div 2)

\* The ulp of a value whose integer part is v.
FUlp(v) == IF FBits(v) > MantBits THEN 2 ^ (FBits(v) - MantBits) ELSE 1

\* a / b rounded (a >= 0, b > 0).
FDiv(a, b) ==
  LET u == b * FUlp(a \div b)
      k == a \div u
      r == a % u
  IN  IF 2 * r > u \/ (2 * r = u /\ k % 2 = 1)
        THEN (k + 1) * (u \div b)
        ELSE k * (u \div b)

\* v rounded (v >= 0).
FRound(v) == FDiv(v, 1)

\* Lines 73-76: merge the particle into the leaf.  The leaf's position is
\* mx / mass, a whole number of units.
V5Merge(n, px, py, m) ==
  LET new_mass == FRound(n.mass + m)
      pos_x == FDiv(FRound(FRound(m * px) + FRound(n.mass * (n.mx \div n.mass))),
                    new_mass)
      pos_y == FDiv(FRound(FRound(m * py) + FRound(n.mass * (n.my \div n.mass))),
                    new_mass)
  IN  [n EXCEPT !.mx = new_mass * pos_x, !.my = new_mass * pos_y,
                !.mass = new_mass]

\* Lines 91-99 without the assignment of line 99: the centre of mass moves,
\* the mass stays.
V5Aggregate_nomass(n, px, py, m) ==
  [n EXCEPT !.mx = m * px + n.mx, !.my = m * py + n.my]

\* Lines 91-99: the aggregate of the node after the particle passed.
V5Aggregate(n, px, py, m) ==
  LET new_mass == n.mass + m
  IN  IF new_mass > 0
        THEN [n EXCEPT !.mx = m * px + n.mx, !.my = m * py + n.my,
                       !.mass = new_mass]
        ELSE [n EXCEPT !.mx = px * new_mass, !.my = py * new_mass,
                       !.mass = new_mass]

\* Lines 80-86 without line 88: the node keeps its PID beside the child.
V5Split_keeps_pid(T, t) ==
  LET n == NodeAt(T, t)
      mid_x == Mid(n.LB, n.RB)
      mid_y == Mid(n.DB, n.UB)
      old_index == V5Index(n.mx > mid_x * n.mass, n.my > mid_y * n.mass)
      T1 == create_new_TNode(T, old_index, n.LB, n.RB, n.DB, n.UB)
      c == T1.ret
      cn == [NodeAt(T1, c) EXCEPT !.PID = n.PID, !.mx = n.mx, !.my = n.my,
                                  !.mass = n.mass]
  IN  IF T1.halt # ""
        THEN T1
        ELSE SetNode(SetNode(T1, c, cn), t, [n EXCEPT !.child[old_index] = c])

\* Lines 80-88: push the leaf's particle down into a fresh child.
V5Split(T, t) ==
  LET n == NodeAt(T, t)
      mid_x == Mid(n.LB, n.RB)
      mid_y == Mid(n.DB, n.UB)
      old_index == V5Index(n.mx > mid_x * n.mass, n.my > mid_y * n.mass)
      T1 == create_new_TNode(T, old_index, n.LB, n.RB, n.DB, n.UB)
      c == T1.ret
      cn == [NodeAt(T1, c) EXCEPT !.PID = n.PID, !.mx = n.mx, !.my = n.my,
                                  !.mass = n.mass]
  IN  IF T1.halt # ""
        THEN T1
        ELSE SetNode(SetNode(T1, c, cn), t,
                     [n EXCEPT !.child[old_index] = c, !.PID = NoPID])

\* Lines 105-108 with the root's PID in place of the particle's.
V5NewLeaf_rootpid(cn, px, py, m, PID) ==
  [cn EXCEPT !.mx = m * px, !.my = m * py, !.mass = m, !.PID = 0]

\* Lines 105-108: the fields of the new leaf of particle PID.
V5NewLeaf(cn, px, py, m, PID) ==
  [cn EXCEPT !.mx = m * px, !.my = m * py, !.mass = m, !.PID = PID]

(***************************************************************************)
(* Lines 65-112: one activation of insert on node t.  The result is the    *)
(* store, and in next the child on which line 110 calls insert again, or   *)
(* NULL when the insertion is over.                                        *)
(***************************************************************************)
InsertLevel(T, t, px, py, m, PID) ==
  LET n == NodeAt(T, t)
      width == n.RB - n.LB
      merge == /\ n.PID # NoPID
               /\ \/ WidthTiny(width)
                  \/ (px * n.mass = n.mx /\ py * n.mass = n.my)
      T1 == IF n.PID # NoPID THEN V5Split(T, t) ELSE T
  IN  IF merge
        THEN [T |-> SetNode(T, t, V5Merge(n, px, py, m)), next |-> NULL]
      ELSE IF T1.halt # ""
        THEN [T |-> T1, next |-> NULL]
      ELSE
        LET n1 == NodeAt(T1, t)
            mid_x == Mid(n1.LB, n1.RB)
            mid_y == Mid(n1.DB, n1.UB)
            n2 == V5Aggregate(n1, px, py, m)
            T2 == SetNode(T1, t, n2)
            index == V5Index(px > mid_x, py > mid_y)
        IN  IF n2.child[index] = NULL
              THEN LET T3 == create_new_TNode(T2, index, n2.LB, n2.RB,
                                              n2.DB, n2.UB)
                       c == T3.ret
                       cn == V5NewLeaf(NodeAt(T3, c), px, py, m, PID)
                   IN  IF T3.halt # ""
                         THEN [T |-> T3, next |-> NULL]
                         ELSE [T |-> SetNode(SetNode(T3, c, cn), t,
                                       [NodeAt(T3, t) EXCEPT !.child[index] = c]),
                               next |-> NULL]
              ELSE [T |-> T2, next |-> n2.child[index]]

\* The chain of activations, run in blocks to keep the recursion of its
\* evaluation shallow.
InsertBlockLen == 2 ^ 3

RECURSIVE InsertBlock(_, _, _, _, _, _)
InsertBlock(st, px, py, m, PID, n) ==
  IF n = 0 \/ st.next = NULL
    THEN st
    ELSE Bind(LAMBDA s2 : InsertBlock(s2, px, py, m, PID, n - 1),
              InsertLevel(st.T, st.next, px, py, m, PID))

RECURSIVE InsertLoop(_, _, _, _, _)
InsertLoop(st, px, py, m, PID) ==
  IF st.next = NULL
    THEN st.T
    ELSE Bind(LAMBDA s2 : InsertLoop(s2, px, py, m, PID),
              InsertBlock(st, px, py, m, PID, InsertBlockLen))

\* Lines 65-112 insert.
insert(T, t, px, py, m, PID) ==
  Bind(LAMBDA T0 : InsertLoop([T |-> T0, next |-> t], px, py, m, PID), T)


(***************************************************************************)
(* Particle arrays are functions on 0 .. N-1, as in C.                     *)
(***************************************************************************)
Idx(n) == 0 .. n - 1

ArrMin(arr, n) ==
  CHOOSE v \in {arr[i] : i \in Idx(n)} : \A i \in Idx(n) : v <= arr[i]

ArrMax(arr, n) ==
  CHOOSE v \in {arr[i] : i \in Idx(n)} : \A i \in Idx(n) : v >= arr[i]

(***************************************************************************)
(* v5_parallel.c:168-190 (and v4_morton.c:131-156): the bounding box, made *)
(* square and padded by 5% of its side.  d is a multiple of Unit, so       *)
(* d * 0.05 = d / 20 is exact.                                             *)
(***************************************************************************)
SquareBox(px, py, n) ==
  LET x_min == ArrMin(px, n)
      x_max == ArrMax(px, n)
      y_min == ArrMin(py, n)
      y_max == ArrMax(py, n)
      dx == x_max - x_min
      dy == y_max - y_min
      d == IF dx > dy THEN dx ELSE dy
      pad == d \div 20
  IN  [LB |-> x_min - pad, RB |-> x_min + d + pad,
       DB |-> y_min - pad, UB |-> y_min + d + pad]

(***************************************************************************)
(* v5_parallel.c:236-245: the root holds particle 0, then particles        *)
(* 1 .. N-1 are inserted.  V5Root is the store after line 240.             *)
(***************************************************************************)
V5Root(T, px, py, m, box) ==
  LET T1 == create_new_TNode(T, 0 - 1, box.LB, box.RB, box.DB, box.UB)
  IN  IF T1.halt # ""
        THEN T1
        ELSE SetNode(T1, T1.ret,
               [NodeAt(T1, T1.ret) EXCEPT !.PID = 0, !.mx = m[0] * px[0],
                                          !.my = m[0] * py[0], !.mass = m[0]])


(***************************************************************************)
(* utils/kmeans.c:171-254: the Morton sort.  A 32-bit grid coordinate is   *)
(* kept as its eight hexadecimal digits, most significant first, and a     *)
(* 64-bit code as its eight bytes, because they do not fit the integers of *)
(* the checker.                                                            *)
(***************************************************************************)
GridBits == 32
Hex == 2 ^ 4
GridDigits == GridBits \div 4

\* The n leading hexadecimal digits of the fraction rem / w (0 <= rem < w),
\* and the remainder left: long division, one digit a step.
RECURSIVE FracDigits(_, _, _, _)
FracDigits(rem, w, n, acc) ==
  IF n = 0
    THEN [digits |-> acc, rem |-> rem]
    ELSE Bind(LAMBDA st : FracDigits(st.rem, w, n - 1, st.acc),
              [rem |-> (rem * Hex) % w, acc |-> Append(acc, (rem * Hex) \div w)])

\* digits - 1, for a number that is not 0.
RECURSIVE DigitsDec(_)
DigitsDec(digits) ==
  LET n == Len(digits)
  IN  IF digits[n] > 0
        THEN [digits EXCEPT ![n] = @ - 1]
        ELSE Append(DigitsDec(SubSeq(digits, 1, n - 1)), Hex - 1)

(***************************************************************************)
(* Lines 209-215: (unsigned int)((pos - LB) * scale) with                  *)
(* scale = (2^32 - 1) / width, for 0 <= p = pos - LB < w = width:          *)
(* floor(p * (2^32 - 1) / w) = q - [r < p] where p * 2^32 = q * w + r.     *)
(* For width = 0 the product is 0 * inf = NaN, whose conversion is         *)
(* undefined; every particle then has the same position and gets the same  *)
(* code, taken as 0 here.                                                  *)
(***************************************************************************)
GridCoord(p, w) ==
  IF w = 0 \/ p = 0
    THEN [d \in 1 .. GridDigits |-> 0]
    ELSE LET d == FracDigits(p, w, GridDigits, << >>)
         IN  IF d.rem < p THEN DigitsDec(d.digits) ELSE d.digits

\* Lines 173-179 for one digit: bit i of v moves to bit 2i.
RECURSIVE Spread(_)
Spread(v) == IF v = 0 THEN 0 ELSE (v % 2) + 4 * Spread(v \div 2)

SpreadTable == [v \in 0 .. Hex - 1 |-> Spread(v)]

\* Lines 171-181 morton_encode: bit 2i of the code is bit i of x, bit
\* 2i + 1 is bit i of y.
morton_encode(x, y) ==
  [d \in 1 .. GridDigits |-> SpreadTable[x[d]] + 2 * SpreadTable[y[d]]]

\* ca < cb on codes.
RECURSIVE CodeLess(_, _, _)
CodeLess(ca, cb, d) ==
  IF d > GridDigits THEN FALSE
  ELSE IF ca[d] # cb[d] THEN ca[d] < cb[d]
  ELSE CodeLess(ca, cb, d + 1)

\* Lines 188-196 compare_entries.
compare_entries(ca, cb) ==
  IF CodeLess(ca, cb, 1) THEN 0 - 1 ELSE IF CodeLess(cb, ca, 1) THEN 1 ELSE 0

\* Lines 213-218: the code of every particle.
MortonCodes(px, py, n, box) ==
  [i \in Idx(n) |->
     morton_encode(GridCoord(px[i] - box.LB, box.RB - box.LB),
                   GridCoord(py[i] - box.DB, box.UB - box.DB))]

\* The number of entries that compare less than entry e.
Ranks(codes, n) ==
  [e \in Idx(n) |->
     Cardinality({f \in Idx(n) : compare_entries(codes[f], codes[e]) < 0})]

\* The sorted sequences of the entries not in used, given their ranks.
RECURSIVE OrdersFrom(_, _, _)
OrdersFrom(used, rank, n) ==
  LET rest == Idx(n) \ used
  IN  IF rest = {}
        THEN {<< >>}
        ELSE LET least == {e \in rest : \A f \in rest : rank[e] <= rank[f]}
             IN  UNION {{<<e>> \o t : t \in Bind(LAMBDA u : OrdersFrom(u, rank, n),
                                                   used \cup {e})} :
                          e \in least}

(***************************************************************************)
(* Line 221: qsort with compare_entries.  qsort is not stable: the order   *)
(* of entries that compare equal is unspecified, so every order of the     *)
(* entries that is sorted by code is a possible result.  ord[i] is         *)
(* entries[i].index after the sort.                                        *)
(***************************************************************************)
SortedOrders(codes, n) ==
  Bind(LAMBDA rank :
         IF \A e, f \in Idx(n) : rank[e] = rank[f] => e = f
           THEN {[i \in Idx(n) |-> CHOOSE e \in Idx(n) : rank[e] = i]}
           ELSE {[i \in Idx(n) |-> t[i + 1]] : t \in OrdersFrom({}, rank, n)},
       Ranks(codes, n))

\* Lines 230-233 PERMUTE(arr).
PERMUTE(arr, ord, n) == [i \in Idx(n) |-> arr[ord[i]]]

\* The variant that leaves fx and fy in place (the comment of lines 236-242
\* weighs it).
z_order_sort_nofx(s, ord) ==
  [s EXCEPT !.pos_x = PERMUTE(@, ord, s.N), !.pos_y = PERMUTE(@, ord, s.N),
            !.mass = PERMUTE(@, ord, s.N), !.vx = PERMUTE(@, ord, s.N),
            !.vy = PERMUTE(@, ord, s.N)]

\* Lines 236-242: every per-particle array is permuted by the sorted
\* order.
z_order_sort(s, ord) ==
  [s EXCEPT !.pos_x = PERMUTE(@, ord, s.N), !.pos_y = PERMUTE(@, ord, s.N),
            !.mass = PERMUTE(@, ord, s.N), !.vx = PERMUTE(@, ord, s.N),
            !.vy = PERMUTE(@, ord, s.N), !.fx = PERMUTE(@, ord, s.N),
            !.fy = PERMUTE(@, ord, s.N)]

(***************************************************************************)
(* kernels/v5_parallel.c:114-160: the force on one particle.               *)
(*                                                                         *)
(* _compute_force adds G * mass * node->mass * r / (r_sq + 1e-12)^(3/2)    *)
(* to *fx and *fy, a function of the node's mass and centre of mass only   *)
(* (the target particle is fixed).  The accumulated value of fx[i] is the  *)
(* floating-point sum of these terms in the order they are added; it is    *)
(* kept as the sequence of the terms, each named by the node's mass and    *)
(* mass-weighted position sums.                                            *)
(***************************************************************************)
StackCap == 2048

_compute_force(node) == [mass |-> node.mass, mx |-> node.mx, my |-> node.my]

(***************************************************************************)
(* Line 148: width * width < THETA * THETA * dist_sq, where dist_sq is the *)
(* squared distance from the particle to the node's centre of mass         *)
(* (mx / mass, my / mass); multiplied through by mass^2.  With theta = 0   *)
(* the right side is 0 and the left side is not negative.                  *)
(***************************************************************************)
ThetaAccepts(node, px, py, theta) ==
  IF theta = 0
    THEN FALSE
    ELSE LET width == node.RB - node.LB
             dx == px * node.mass - node.mx
             dy == py * node.mass - node.my
             wm == width * node.mass
         IN  wm * wm < theta * theta * (dx * dx + dy * dy)

\* Lines 151-156 with the loop ending at i < 3: child[3] is never pushed.
PushChildren_three(stack, node) ==
  LET kids == SelectSeq([q \in 1 .. 3 |-> node.child[q - 1]], LAMBDA c : c # NULL)
      room == StackCap - Len(stack)
  IN  stack \o SubSeq(kids, 1, Min2(Len(kids), room))

\* Lines 151-156: push child[0..3] in this order, each only if non-NULL
\* and sp < 2048.
PushChildren(stack, node) ==
  LET kids == SelectSeq([q \in 1 .. 4 |-> node.child[q - 1]], LAMBDA c : c # NULL)
      room == StackCap - Len(stack)
  IN  stack \o SubSeq(kids, 1, Min2(Len(kids), room))

(***************************************************************************)
(* Lines 135-159: one iteration of the loop over the explicit stack.  st   *)
(* is [stack, acc]: acc.f is the sequence of terms added so far,           *)
(* acc.dropped counts the children line 153 did not push because the stack *)
(* was full.                                                               *)
(***************************************************************************)
TraverseStep(mem, st, px, py, PID, theta) ==
  LET sp == Len(st.stack)
      node == mem[st.stack[sp]]
      rest == SubSeq(st.stack, 1, sp - 1)
      pushed == PushChildren(rest, node)
      nkids == Cardinality({q \in Quadrants : node.child[q] # NULL})
  IN  IF node.PID = PID
        THEN [st EXCEPT !.stack = rest]
      ELSE IF node.PID # NoPID \/ ThetaAccepts(node, px, py, theta)
        THEN [stack |-> rest,
              acc |-> [st.acc EXCEPT !.f = Append(@, _compute_force(node))]]
      ELSE [stack |-> pushed,
            acc |-> [st.acc EXCEPT !.dropped =
                       @ + nkids - (Len(pushed) - Len(rest))]]

(***************************************************************************)
(* The loop of lines 135-159.  To keep the recursion of its evaluation     *)
(* shallow the iterations are grouped: a run of level 0 is one iteration,  *)
(* a run of level l + 1 is up to RunLen runs of level l; every run stops   *)
(* when the stack is empty.                                                *)
(***************************************************************************)
RunLen == 2 ^ 2
RunLevels == 1 + 1

RECURSIVE TraverseRun(_, _, _, _, _, _, _, _)
TraverseRun(mem, st, px, py, PID, theta, level, n) ==
  IF n = 0 \/ st.stack = << >>
    THEN st
    ELSE Bind(LAMBDA s2 : TraverseRun(mem, s2, px, py, PID, theta, level, n - 1),
              IF level = 0
                THEN TraverseStep(mem, st, px, py, PID, theta)
                ELSE TraverseRun(mem, st, px, py, PID, theta, level - 1, RunLen))

RECURSIVE Traverse(_, _, _, _, _, _)
Traverse(mem, st, px, py, PID, theta) ==
  IF st.stack = << >>
    THEN st.acc
    ELSE Bind(LAMBDA s2 : Traverse(mem, s2, px, py, PID, theta),
              TraverseRun(mem, st, px, py, PID, theta, RunLevels, RunLen))

\* Lines 127-160 compute_force_single: the terms added to fx[PID] and
\* fy[PID], which the caller has set to 0.
compute_force_single(mem, tree, px, py, PID, theta) ==
  Bind(LAMBDA m :
         Traverse(m, [stack |-> IF tree = NULL THEN << >> ELSE <<tree>>,
                      acc |-> [f |-> << >>, dropped |-> 0]],
                  px, py, PID, theta),
       mem)


(***************************************************************************)
(* The serial tree kernels: compute_force_v2_barnes_hut (malloc),          *)
(* compute_force_v3_arena (arena) and compute_force_v4_morton              *)
(* (kernels/v4_morton.c, either).  The three files have the same           *)
(* create_node, is_leaf, insert and compute_force_rec but for the          *)
(* allocator; the line numbers below are those of v4_morton.c.             *)
(***************************************************************************)
\* Line 11 is_leaf.
is_leaf(n) == n.child[0] = NULL

\* Lines 15-30: the allocation of create_node.  exit(1) when the arena is
\* full.
SerialAlloc(T) ==
  IF T.a
    THEN LET r == arena_alloc(T.arena)
         IN  IF r.ret = NULL
               THEN [T EXCEPT !.halt = "exit1", !.ret = NULL]
               ELSE [T EXCEPT !.arena = r.arena, !.ret = r.ret]
    ELSE [T EXCEPT !.heap = Append(T.heap, JunkNode), !.ret = Len(T.heap) + 1]

\* Lines 13-43 create_node.
create_node(T, LB, RB, DB, UB) ==
  LET T1 == SerialAlloc(T)
  IN  IF T1.halt # ""
        THEN T1
        ELSE SetNode(T1, T1.ret,
               [LB |-> LB, RB |-> RB, DB |-> DB, UB |-> UB,
                child |-> [q \in Quadrants |-> NULL],
                mx |-> 0, my |-> 0, mass |-> 0, PID |-> NoPID])

\* Lines 101-104 (and 71-74): the particle's mass and position enter the
\* node's aggregate.
SerialAdd(n, px, py, mass) ==
  [n EXCEPT !.mx = n.mx + px * mass, !.my = n.my + py * mass,
            !.mass = n.mass + mass]

\* Lines 86-90: the quadrant of a position.
SerialQuad(gt_x, gt_y) == B2I(gt_x) + 2 * B2I(gt_y)

\* Lines 92-98: the child of node t for the quadrant, created when absent.
SerialChild(T, t, quad) ==
  LET n == NodeAt(T, t)
      mid_x == Mid(n.LB, n.RB)
      mid_y == Mid(n.DB, n.UB)
      odd == quad % 2 = 1
      high == quad \div 2 = 1
      T1 == create_node(T, IF odd THEN mid_x ELSE n.LB,
                           IF odd THEN n.RB ELSE mid_x,
                           IF high THEN mid_y ELSE n.DB,
                           IF high THEN n.UB ELSE mid_y)
  IN  IF n.child[quad] # NULL
        THEN [T EXCEPT !.ret = n.child[quad]]
      ELSE IF T1.halt # ""
        THEN T1
      ELSE SetNode(T1, t, [NodeAt(T1, t) EXCEPT !.child[quad] = T1.ret])

(***************************************************************************)
(* Lines 53-105 insert.  X, Y, M are sys->pos_x, pos_y and mass.  The      *)
(* coincidence test |dx| < 1e-9 && |dy| < 1e-9 of line 70 is equality on   *)
(* the lattice.  Line 80 calls insert on the same node for the particle    *)
(* the leaf held; lines 101-104 run after the call of line 99 returned.    *)
(***************************************************************************)
RECURSIVE insert_serial(_, _, _, _, _, _)
insert_serial(T, t, idx, X, Y, M) ==
  LET n == NodeAt(T, t)
      px == X[idx]
      py == Y[idx]
      mass == M[idx]
      held == is_leaf(n) /\ n.PID # NoPID
      Descend(T1) ==
        LET n1 == NodeAt(T1, t)
            quad == SerialQuad(px > Mid(n1.LB, n1.RB), py > Mid(n1.DB, n1.UB))
            Below(T2) ==
              IF T2.halt # ""
                THEN T2
                ELSE Bind(LAMBDA T3 :
                            IF T3.halt # ""
                              THEN T3
                              ELSE SetNode(T3, t, SerialAdd(NodeAt(T3, t), px, py, mass)),
                          insert_serial(T2, T2.ret, idx, X, Y, M))
        IN  Bind(Below, SerialChild(T1, t, quad))
  IN  IF n.mass = 0 /\ is_leaf(n) /\ n.PID = NoPID
        THEN SetNode(T, t, [n EXCEPT !.mass = mass, !.mx = px * mass,
                                     !.my = py * mass, !.PID = idx])
      ELSE IF held /\ px = X[n.PID] /\ py = Y[n.PID]
        THEN SetNode(T, t, SerialAdd(n, px, py, mass))
      ELSE IF held
        THEN Bind(LAMBDA T1 : IF T1.halt # "" THEN T1 ELSE Descend(T1),
                  insert_serial(SetNode(T, t, [n EXCEPT !.PID = NoPID]),
                                t, n.PID, X, Y, M))
      ELSE Descend(T)

(***************************************************************************)
(* Lines 107-127 compute_force_rec: the terms added to fx[idx] and         *)
(* fy[idx].  Line 118: s / r < THETA_MAX with r = sqrt(dx^2 + dy^2 + 1e-6) *)
(* is s^2 < THETA^2 * (dx^2 + dy^2 + 1e-6); s^2 and THETA^2 * (dx^2+dy^2)  *)
(* are integers once multiplied by mass^2 and THETA^2 * mass^2 * 1e-6 is   *)
(* below 1, so the test is s^2 <= THETA^2 * (dx^2 + dy^2) for THETA > 0.   *)
(***************************************************************************)
SerialAccepts(n, px, py, theta) ==
  IF theta = 0
    THEN FALSE
    ELSE LET dx == n.mx - px * n.mass
             dy == n.my - py * n.mass
             sm == (n.RB - n.LB) * n.mass
         IN  sm * sm <= theta * theta * (dx * dx + dy * dy)

RECURSIVE compute_force_rec(_, _, _, _, _, _)
compute_force_rec(mem, node, idx, px, py, theta) ==
  IF node = NULL THEN << >>
  ELSE LET n == mem[node]
       IN  IF n.mass = 0 \/ n.PID = idx THEN << >>
           ELSE IF is_leaf(n) \/ SerialAccepts(n, px, py, theta)
             THEN << _compute_force(n) >>
           ELSE compute_force_rec(mem, n.child[0], idx, px, py, theta)
                  \o compute_force_rec(mem, n.child[1], idx, px, py, theta)
                  \o compute_force_rec(mem, n.child[2], idx, px, py, theta)
                  \o compute_force_rec(mem, n.child[3], idx, px, py, theta)

\* compute_force_v2_barnes_hut and compute_force_v3_arena: the bounding
\* box as it is, neither squared nor padded.
RawBox(px, py, n) ==
  [LB |-> ArrMin(px, n), RB |-> ArrMax(px, n),
   DB |-> ArrMin(py, n), UB |-> ArrMax(py, n)]

(***************************************************************************)
(* kernels/v1_naive.c:5-28: the direct sum.  The term particle j adds to    *)
(* the force on particle i is named like the term of a leaf that holds j    *)
(* alone: its mass and mass-weighted position.                              *)
(***************************************************************************)
NaiveTerm(px, py, m, j) == [mass |-> m[j], mx |-> m[j] * px[j], my |-> m[j] * py[j]]

\* Lines 14-24: the terms of particle i, j ascending.
NaiveForce(px, py, m, n, i) ==
  LET others == SelectSeq([t \in 1 .. n |-> t - 1], LAMBDA j : j # i)
  IN  [t \in 1 .. Len(others) |-> NaiveTerm(px, py, m, others[t])]

\* Lines 5-28 compute_force_v1_naive: the new fx (and fy).
compute_force_v1_naive(s) ==
  [i \in Idx(s.N) |-> NaiveForce(s.pos_x, s.pos_y, s.mass, s.N, i)]


(***************************************************************************)
(* utils/kmeans.c:7-162: k-means clustering of the particles.              *)
(*                                                                         *)
(* A centroid is the record [sx, sy, c, count]: its coordinates are        *)
(* sx / c and sy / c (a mean of lattice points is a rational), count is    *)
(* the CNode's count field.                                                *)
(***************************************************************************)
MAX_ITERATIONS == 50

\* Lines 21-26: the first k particles are the initial centroids.
InitCentroids(px, py, k) ==
  [j \in Idx(k) |-> [sx |-> px[j], sy |-> py[j], c |-> 1, count |-> 0]]

\* Lines 152-154: dist to centroid cl, as the fraction num / den.
CDist(x, y, cl) ==
  LET dx == x * cl.c - cl.sx
      dy == y * cl.c - cl.sy
  IN  [num |-> dx * dx + dy * dy, den |-> cl.c * cl.c]

\* Lines 149-160: the label of one particle; best is the label so far,
\* have is FALSE while min_dist is still INFINITY.
RECURSIVE NearestFrom(_, _, _, _, _, _, _)
NearestFrom(x, y, cls, k, j, best, have) ==
  IF j >= k THEN best
  ELSE LET d == CDist(x, y, cls[j])
           m == CDist(x, y, cls[best])
       IN  IF ~have \/ d.num * m.den < m.num * d.den
             THEN NearestFrom(x, y, cls, k, j + 1, j, TRUE)
             ELSE NearestFrom(x, y, cls, k, j + 1, best, have)

\* Lines 143-162 assignLabels.
assignLabels(px, py, cls, k, n) ==
  [i \in Idx(n) |-> NearestFrom(px[i], py[i], cls, k, 0, 0, FALSE)]

\* Lines 102-141 getCentroids, for labels in 0..k-1.
getCentroids(px, py, labels, k, n) ==
  [j \in Idx(k) |->
     LET members == {i \in Idx(n) : labels[i] = j}
         sx == SeqSum([t \in 1 .. n |-> IF labels[t - 1] = j THEN px[t - 1] ELSE 0])
         sy == SeqSum([t \in 1 .. n |-> IF labels[t - 1] = j THEN py[t - 1] ELSE 0])
         cnt == Cardinality(members)
     IN  IF cnt = 0
           THEN IF j < n
                  THEN [sx |-> px[j], sy |-> py[j], c |-> 1, count |-> 0]
                  ELSE [sx |-> 0, sy |-> 0, c |-> 1, count |-> 0]
           ELSE [sx |-> sx, sy |-> sy, c |-> cnt, count |-> cnt]]

(***************************************************************************)
(* Lines 86-100 converged.  On the lattice two different centroids differ  *)
(* by far more than 1e-5, so the test is equality of the fractions.  At    *)
(* iterations = 0 it reads old_clusters_ctr_x/y, which line 17-18 leave    *)
(* uninitialised: the outcome of that call is the caller's choice conv0    *)
(* (TRUE when the stack happens to hold the initial centroids, or NaNs,    *)
(* for which no comparison with 1e-5 is true).                             *)
(***************************************************************************)
converged(cls, old, iterations, k, conv0) ==
  IF iterations > MAX_ITERATIONS THEN TRUE
  ELSE IF iterations = 0 THEN conv0
  ELSE \A j \in Idx(k) :
         /\ cls[j].sx * old[j].c = old[j].sx * cls[j].c
         /\ cls[j].sy * old[j].c = old[j].sy * cls[j].c

\* Lines 28-45: the loop.  labels0 is the content of the malloc'ed labels
\* array, read by the packing when the loop body never runs.
RECURSIVE KMeansLoop(_, _, _, _, _, _, _, _, _)
KMeansLoop(px, py, n, k, cls, old, labels, iterations, conv0) ==
  IF converged(cls, old, iterations, k, conv0)
    THEN [labels |-> labels, rounds |-> iterations]
    ELSE Bind(LAMBDA l2 :
                Bind(LAMBDA c2 : KMeansLoop(px, py, n, k, c2, cls, l2,
                                            iterations + 1, conv0),
                     getCentroids(px, py, l2, k, n)),
              assignLabels(px, py, cls, k, n))

(***************************************************************************)
(* Lines 60-78: the packing.  For a label outside 0..k-1 (possible only    *)
(* when labels was never written) line 64 increments a cell outside        *)
(* clusters_size and line 74 reads cells outside offsets and cnt; the      *)
(* outcome taken is that the entries of clusters_size are not touched and  *)
(* that the guard of line 74 fails, so the index is not stored.            *)
(***************************************************************************)
PackSizes(labels, k, n) ==
  [c \in Idx(k) |-> Cardinality({i \in Idx(n) : labels[i] = c})]

Offsets(sizes, k) ==
  [c \in Idx(k) |-> SeqSum([t \in 1 .. c |-> sizes[t - 1]])]

RECURSIVE PackFill(_, _, _, _, _, _, _)
PackFill(clustersP, labels, offsets, cnt, k, n, i) ==
  IF i >= n THEN clustersP
  ELSE LET c == labels[i]
       IN  IF c \in Idx(k)
             THEN Bind(LAMBDA st : PackFill(st.clustersP, labels, offsets,
                                            st.cnt, k, n, i + 1),
                       [clustersP |-> IF offsets[c] + cnt[c] < n
                                        THEN [clustersP EXCEPT ![offsets[c] + cnt[c]] = i]
                                        ELSE clustersP,
                        cnt |-> [cnt EXCEPT ![c] = @ + 1]])
             ELSE PackFill(clustersP, labels, offsets, cnt, k, n, i + 1)

\* Lines 7-84 kmeans: the new contents of clustersP and clusters_size.
kmeans(px, py, n, clustersP, k, conv0, labels0) ==
  LET Pack(run, sizes) ==
        Bind(LAMBDA offsets :
               [clusters |-> PackFill(clustersP, run.labels, offsets,
                                      [c \in Idx(k) |-> 0], k, n, 0),
                clusters_size |-> sizes,
                rounds |-> run.rounds,
                labels |-> run.labels],
             Offsets(sizes, k))
  IN  Bind(LAMBDA run : Bind(LAMBDA sizes : Pack(run, sizes),
                             PackSizes(run.labels, k, n)),
           Bind(LAMBDA c0 : KMeansLoop(px, py, n, k, c0, c0, labels0, 0, conv0),
                InitCentroids(px, py, k)))

\* Contents the uninitialised labels array is taken to have: all zero,
\* all out of range, or only the first entry out of range.
GarbageLabels(n, k) ==
  {[i \in Idx(n) |-> 0], [i \in Idx(n) |-> k],
   [i \in Idx(n) |-> IF i = 0 THEN k ELSE 0]}


(***************************************************************************)
(* The state.                                                              *)
(*   sys            ParticleSystem (types.h): N and the per-particle       *)
(*                  arrays.  vx[i] and vy[i] hold the index the particle   *)
(*                  had in the input, so that a reordering is visible.     *)
(*   config         KernelConfig (types.h).                                *)
(*   version        the kernel main.c:40-83 selected: 1 .. 5 (0 while the  *)
(*                  arena alone is exercised).                             *)
(*   clusters, clusters_size, call_count, arena, arena_N                   *)
(*                  the statics of v5_parallel.c:9-16; a NULL array is     *)
(*                  << >>.  arena and arena_N are also the statics of the  *)
(*                  same names of the v3 and v4 kernels (a run uses one    *)
(*                  kernel); for the kernels other than v5 call_count is   *)
(*                  the number of calls main.c has made.                   *)
(*   heap           the nodes obtained from malloc.                        *)
(*   root           handle of the root node of the call in progress.       *)
(*   pc             where the program is: "call" before a kernel call,     *)
(*                  "build" in the insertion loop, "force" in the force    *)
(*                  loop, "done" after the call returned, "exit1" after    *)
(*                  exit(1), "segv" after a NULL dereference, "arena"      *)
(*                  while the arena alone is exercised.                    *)
(*   bi             loop variable of the insertion loop.                   *)
(*   next_it        first iteration of the parallel loop not handed out.   *)
(*   wk             per worker: the chunk [lo, hi) it holds and its        *)
(*                  position (i, j) in it.                                 *)
(*   wrote          history: wrote[i] lists the writes to fx[i], fy[i] by  *)
(*                  workers in this call: the worker and the chunk         *)
(*                  [lo, hi) it held.                                      *)
(*   a_ret, a_live, a_op                                                   *)
(*                  history for the arena operations: the last result of   *)
(*                  arena_alloc, the slots returned since the last reset   *)
(*                  in order, and the last operation.                      *)
(*   trav           the traversal of compute_force_single (or of the       *)
(*                  legacy compute_force_stackless) in progress when its   *)
(*                  loop is followed one iteration at a time: the explicit *)
(*                  stack and what has been accumulated.                   *)
(*   enc            the Morton encoders alone: the grid coordinates ix,    *)
(*                  iy given to them and, once they have run, the code     *)
(*                  each of them returned.                                 *)
(*   drv            main.c followed from its first line: the arguments     *)
(*                  argc, N, nsteps and delta_t, whether the input file    *)
(*                  can be opened and holds N particles, the loop variable *)
(*                  step, and the output files created so far.             *)
(*   gal            the velocity loop of the legacy driver galsim.c: the   *)
(*                  next iteration to hand out, each thread's iteration    *)
(*                  and statement, the variables new_acc_x and new_acc_y   *)
(*                  of main, and the arrays vx, vy, acc_x, acc_y.          *)
(*   rec            the activations of the recursive insert of             *)
(*                  v2_barnes_hut/barnes_hut.c that have not returned,     *)
(*                  the innermost last: the node, the particle and the     *)
(*                  place in the function.                                 *)
(*   km             what the last call of kmeans did: the number of rounds *)
(*                  of its loop, the labels its packing read, and the      *)
(*                  kernel call (call_count after it) that made it.        *)
(***************************************************************************)
VARIABLES sys, config, version, clusters, clusters_size, call_count, arena,
          arena_N, heap, root, pc, bi, next_it, wk, wrote, a_ret, a_live, a_op,
          trav, enc, drv, gal, rec, km

vars == <<sys, config, version, clusters, clusters_size, call_count, arena,
          arena_N, heap, root, pc, bi, next_it, wk, wrote, a_ret, a_live, a_op,
          trav, enc, drv, gal, rec, km>>

MortonChunk == 64
ClusterChunk == 8
KMeansPeriod == 10
ArenaFactor == 10
SerialArenaFactor == 100

ZeroForce(n) == [i \in Idx(n) |-> << >>]
NoTraversal == [stack |-> << >>, acc |-> [f |-> << >>, dropped |-> 0]]
NoCodes == [ix |-> << >>, iy |-> << >>, done |-> FALSE]
NoTeam == [next |-> 0, th |-> << >>, new_acc_x |-> 0, new_acc_y |-> 0,
           vx |-> << >>, vy |-> << >>, acc_x |-> << >>, acc_y |-> << >>]
NoKMeans == [rounds |-> 0, labels |-> << >>, call |-> 0]
NoDriver == [argc |-> 0, N |-> 0, file |-> "", nsteps |-> 0, dt |-> 0,
             step |-> 0, files |-> {}]
IdleWorkers(t) == [w \in 1 .. t |-> [lo |-> 0, hi |-> 0, i |-> 0, j |-> 0]]

\* Whether the kernel in use builds its tree in the arena: v3 always
\* (v3 kernel line 135), v4 and v5 when config->use_arena (v4_morton.c:162,
\* v5_parallel.c:225), v2 never.
UsesArena ==
  \/ version = 3
  \/ version \in {4, 5} /\ config.use_arena

\* The builder's view of the node memory.
Store == [arena |-> arena, heap |-> heap, a |-> UsesArena,
          halt |-> "", ret |-> NULL]

\* Number of iterations of the parallel loop and its chunk size
\* (lines 257-258, 269-270).
Total == IF config.k_clusters > 0 THEN config.k_clusters ELSE sys.N
Chunk == IF config.k_clusters > 0 THEN ClusterChunk ELSE MortonChunk

(***************************************************************************)
(* Lines 162-240: the kernel call up to the creation of the root.          *)
(***************************************************************************)
\* Lines 197-208: the cluster arrays are (re)allocated when missing or too
\* small; malloc'ed memory holds Junk.
ClustersMem(n) ==
  IF Cardinality(DOMAIN clusters) < n THEN [i \in Idx(n) |-> Junk] ELSE clusters
ClustersSizeMem(k) ==
  IF Cardinality(DOMAIN clusters_size) < k THEN [c \in Idx(k) |-> Junk] ELSE clusters_size

\* Lines 225-234 (v4_morton.c:162-171, v3 kernel lines 109-118): the
\* arena of factor * N nodes, allocated anew when N changed.
KernelArena(n, factor) ==
  IF arena.buffer = << >> \/ arena_N # n
    THEN reset_arena(init_arena(n * factor))
    ELSE reset_arena(arena)

\* Lines 217-245 after the reordering: forces reset, arena prepared, root
\* created.  s is sys after lines 192-214, bx the box of lines 168-190.
BuildStart(s, bx) ==
  \E T0 \in {[arena |-> IF config.use_arena THEN KernelArena(s.N, ArenaFactor)
                                            ELSE arena,
              heap |-> << >>, a |-> config.use_arena, halt |-> "",
              ret |-> NULL]} :
  \E T1 \in {V5Root(T0, s.pos_x, s.pos_y, s.mass, bx)} :
      /\ sys' = [s EXCEPT !.fx = ZeroForce(s.N), !.fy = ZeroForce(s.N)]
      /\ arena' = T1.arena
      /\ arena_N' = IF config.use_arena THEN s.N ELSE arena_N
      /\ heap' = T1.heap
      /\ root' = T1.ret
      /\ call_count' = call_count + 1
      /\ wrote' = ZeroForce(s.N)
      /\ bi' = 1
      /\ next_it' = 0
      /\ wk' = IdleWorkers(config.n_threads)
      /\ pc' = IF T1.halt # "" THEN T1.halt
               ELSE IF s.N > 1 THEN "build" ELSE "force"

\* k <= 0: line 194 sorts the particles first.
CallMorton ==
  /\ pc = "call"
  /\ version = 5
  /\ config.k_clusters <= 0
  /\ \E bx \in {SquareBox(sys.pos_x, sys.pos_y, sys.N)} :
     \E codes \in {MortonCodes(sys.pos_x, sys.pos_y, sys.N, bx)} :
     \E ord \in SortedOrders(codes, sys.N) :
     \E s \in {z_order_sort(sys, ord)} :
       BuildStart(s, bx)
  /\ UNCHANGED <<config, version, clusters, clusters_size, a_ret, a_live, a_op, trav, enc, drv, gal, rec, km>>

\* k > 0: lines 196-213, k-means on the first call and every tenth.
CallClustered ==
  /\ pc = "call"
  /\ version = 5
  /\ config.k_clusters > 0
  /\ \E bx \in {SquareBox(sys.pos_x, sys.pos_y, sys.N)} :
     \E k \in {config.k_clusters} :
         /\ IF call_count = 0 \/ call_count % KMeansPeriod = 0
              THEN \E conv0 \in BOOLEAN :
                   \E labels0 \in IF conv0 THEN GarbageLabels(sys.N, k)
                                  ELSE {[i \in Idx(sys.N) |-> Junk]} :
                   \E run \in {kmeans(sys.pos_x, sys.pos_y, sys.N,
                                      ClustersMem(sys.N), k, conv0, labels0)} :
                         /\ clusters' = run.clusters
                         /\ clusters_size' = run.clusters_size
                         /\ km' = [rounds |-> run.rounds, labels |-> run.labels,
                                   call |-> call_count + 1]
              ELSE /\ clusters' = ClustersMem(sys.N)
                   /\ clusters_size' = ClustersSizeMem(k)
                   /\ UNCHANGED km
         /\ BuildStart(sys, bx)
  /\ UNCHANGED <<config, version, a_ret, a_live, a_op, trav, enc, drv, gal, rec>>

(***************************************************************************)
(* Lines 242-245: one iteration of the insertion loop.                     *)
(***************************************************************************)
Insert ==
  /\ pc = "build"
  /\ version = 5
  /\ \E T1 \in {insert(Store, root, sys.pos_x[bi], sys.pos_y[bi],
                       sys.mass[bi], bi)} :
         /\ arena' = T1.arena
         /\ heap' = T1.heap
         /\ pc' = IF T1.halt # "" THEN T1.halt
                  ELSE IF bi + 1 < sys.N THEN "build" ELSE "force"
         /\ bi' = IF T1.halt # "" THEN bi ELSE bi + 1
  /\ UNCHANGED <<sys, config, version, clusters, clusters_size, call_count, arena_N,
                 root, next_it, wk, wrote, a_ret, a_live, a_op, trav, enc, drv, gal, rec, km>>


(***************************************************************************)
(* Lines 250-274: the parallel loop.  schedule(dynamic, c): a worker that  *)
(* has no iteration left takes the next c iterations not yet handed out.   *)
(***************************************************************************)
\* Lines 252-255.
KernelOffsets == Offsets(clusters_size, config.k_clusters)

\* Lines 258-259 loop control in clustered mode: from position (i, j) of
\* the chunk ending at hi, the next position that names a particle, or
\* (hi, 0).
RECURSIVE NextMember(_, _, _)
NextMember(i, j, hi) ==
  IF i >= hi THEN [i |-> hi, j |-> 0]
  ELSE IF j < clusters_size[i] THEN [i |-> i, j |-> j]
  ELSE NextMember(i + 1, 0, hi)

Position(i, j, hi) ==
  IF config.k_clusters > 0 THEN NextMember(i, j, hi) ELSE [i |-> i, j |-> 0]

Grab(w) ==
  /\ pc = "force"
  /\ version = 5
  /\ wk[w].i = wk[w].hi
  /\ next_it < Total
  /\ LET hi == Min2(next_it + Chunk, Total)
         p == Position(next_it, 0, hi)
     IN  /\ wk' = [wk EXCEPT ![w] = [lo |-> next_it, hi |-> hi, i |-> p.i, j |-> p.j]]
         /\ next_it' = hi
  /\ UNCHANGED <<sys, config, version, clusters, clusters_size, call_count, arena,
                 arena_N, heap, root, pc, bi, wrote, a_ret, a_live, a_op, trav, enc, drv, gal, rec, km>>

\* Lines 258-260 and 270: the particles of the iterations lo .. hi - 1 of
\* the parallel loop.
ChunkMembers(lo, hi) ==
  IF config.k_clusters > 0
    THEN UNION {{clusters[KernelOffsets[c] + j] :
                   j \in 0 .. clusters_size[c] - 1} : c \in lo .. hi - 1}
    ELSE lo .. hi - 1

\* Lines 260 and 271: the particle of worker w's current position.
CurrentPID(w) ==
  IF config.k_clusters > 0
    THEN clusters[KernelOffsets[wk[w].i] + wk[w].j]
    ELSE wk[w].i

\* Every call accumulating into the first slot (&sys->fx[0]).
ForceSlot_shared(PID) == 0

\* The slot of the force arrays a worker writes for particle PID
\* (&sys->fx[PID], lines 262 and 272).
ForceSlot(PID) == PID

\* Line 137 with an assignment for the comparison (tNode->PID = PID): the
\* root's PID is overwritten.
TraversalEffect_assign(T, tree, PID) ==
  IF tree = NULL THEN T
  ELSE SetNode(T, tree, [NodeAt(T, tree) EXCEPT !.PID = PID])

\* Lines 114-160: the node memory after compute_force_single(.., PID,
\* tree, ..).  The function reads the nodes (lines 137-152) and writes
\* only *fx, *fy and its own stack.
TraversalEffect(T, tree, PID) == T

\* Lines 261-263 and 271-272: one call of compute_force_single.
Step(w) ==
  /\ pc = "force"
  /\ version = 5
  /\ wk[w].i < wk[w].hi
  /\ \E PID \in {CurrentPID(w)} :
     \E r \in {compute_force_single(Mem(Store), root, sys.pos_x[PID],
                                    sys.pos_y[PID], PID, config.theta_max)} :
     \E slot \in {ForceSlot(PID)} :
     \E p \in {IF config.k_clusters > 0
                 THEN Position(wk[w].i, wk[w].j + 1, wk[w].hi)
                 ELSE Position(wk[w].i + 1, 0, wk[w].hi)} :
     \E T1 \in {TraversalEffect(Store, root, PID)} :
         /\ sys' = [sys EXCEPT !.fx[slot] = @ \o r.f, !.fy[slot] = @ \o r.f]
         /\ wrote' = [wrote EXCEPT ![slot] =
                        Append(@, [w |-> w, lo |-> wk[w].lo, hi |-> wk[w].hi])]
         /\ wk' = [wk EXCEPT ![w].i = p.i, ![w].j = p.j]
         /\ arena' = T1.arena
         /\ heap' = T1.heap
  /\ UNCHANGED <<config, version, clusters, clusters_size, call_count, arena_N,
                 root, pc, bi, next_it, a_ret, a_live, a_op, trav, enc, drv, gal, rec, km>>

\* Lines 276-281: the implicit barrier at the end of the loop, then the
\* tree is freed unless it lives in the arena, and the kernel returns.
JoinReady ==
  /\ pc = "force"
  /\ version = 5
  /\ next_it = Total
  /\ \A w \in DOMAIN wk : wk[w].i = wk[w].hi

Join ==
  /\ JoinReady
  /\ pc' = "done"
  /\ heap' = IF config.use_arena THEN heap ELSE << >>
  /\ root' = NULL
  /\ UNCHANGED <<sys, config, version, clusters, clusters_size, call_count, arena,
                 arena_N, bi, next_it, wk, wrote, a_ret, a_live, a_op, trav, enc, drv, gal, rec, km>>

(***************************************************************************)
(* The serial tree kernels (v4_morton.c:129-190 and the v2 and v3          *)
(* kernels): the call up to the creation of the empty root, the insertion  *)
(* loop, then the force loop and the return.                               *)
(***************************************************************************)
\* s is sys after the sort (v4 only), bx the box.
SerialStart(s, bx) ==
  \E T0 \in {[arena |-> IF UsesArena THEN KernelArena(s.N, SerialArenaFactor)
                                     ELSE arena,
              heap |-> << >>, a |-> UsesArena, halt |-> "", ret |-> NULL]} :
  \E T1 \in {create_node(T0, bx.LB, bx.RB, bx.DB, bx.UB)} :
      /\ sys' = s
      /\ arena' = T1.arena
      /\ arena_N' = IF UsesArena THEN s.N ELSE arena_N
      /\ heap' = T1.heap
      /\ root' = T1.ret
      /\ call_count' = call_count + 1
      /\ bi' = 0
      /\ pc' = IF T1.halt # "" THEN T1.halt ELSE "build"

\* v2 and v3: the box of the positions, no sort.
CallSerial ==
  /\ pc = "call"
  /\ version \in {2, 3}
  /\ SerialStart(sys, RawBox(sys.pos_x, sys.pos_y, sys.N))
  /\ UNCHANGED <<config, version, clusters, clusters_size, next_it, wk, wrote,
                 a_ret, a_live, a_op, trav, enc, drv, gal, rec, km>>

\* v4_morton.c:129-173: the squared and padded box, then the sort.
CallSorted ==
  /\ pc = "call"
  /\ version = 4
  /\ \E bx \in {SquareBox(sys.pos_x, sys.pos_y, sys.N)} :
     \E codes \in {MortonCodes(sys.pos_x, sys.pos_y, sys.N, bx)} :
     \E ord \in SortedOrders(codes, sys.N) :
     \E s \in {z_order_sort(sys, ord)} :
       SerialStart(s, bx)
  /\ UNCHANGED <<config, version, clusters, clusters_size, next_it, wk, wrote,
                 a_ret, a_live, a_op, trav, enc, drv, gal, rec, km>>

\* v4_morton.c:174-176: one iteration of the insertion loop.
InsertSerial ==
  /\ pc = "build"
  /\ version \in {2, 3, 4}
  /\ \E T1 \in {insert_serial(Store, root, bi, sys.pos_x, sys.pos_y, sys.mass)} :
         /\ arena' = T1.arena
         /\ heap' = T1.heap
         /\ pc' = IF T1.halt # "" THEN T1.halt
                  ELSE IF bi + 1 < sys.N THEN "build" ELSE "force"
         /\ bi' = IF T1.halt # "" THEN bi ELSE bi + 1
  /\ UNCHANGED <<sys, config, version, clusters, clusters_size, call_count,
                 arena_N, root, next_it, wk, wrote, a_ret, a_live, a_op, trav, enc, drv, gal, rec, km>>

\* v4_morton.c:178-189: the force loop, then the tree is freed unless it
\* lives in the arena, and the kernel returns.
ForceSerial ==
  /\ pc = "force"
  /\ version \in {2, 3, 4}
  /\ \E f \in {[i \in Idx(sys.N) |->
                  compute_force_rec(Mem(Store), root, i, sys.pos_x[i],
                                    sys.pos_y[i], config.theta_max)]} :
         sys' = [sys EXCEPT !.fx = f, !.fy = f]
  /\ heap' = IF UsesArena THEN heap ELSE << >>
  /\ root' = NULL
  /\ pc' = "done"
  /\ UNCHANGED <<config, version, clusters, clusters_size, call_count, arena,
                 arena_N, bi, next_it, wk, wrote, a_ret, a_live, a_op, trav, enc, drv, gal, rec, km>>

\* v1_naive.c:5-28: the whole call.
CallNaive ==
  /\ pc = "call"
  /\ version = 1
  /\ \E f \in {compute_force_v1_naive(sys)} :
         sys' = [sys EXCEPT !.fx = f, !.fy = f]
  /\ call_count' = call_count + 1
  /\ pc' = "done"
  /\ UNCHANGED <<config, version, clusters, clusters_size, arena, arena_N, heap,
                 root, bi, next_it, wk, wrote, a_ret, a_live, a_op, trav, enc, drv, gal, rec, km>>

\* core/main.c:98-124: the driver calls the kernel again in the next time
\* step.  The model runs with delta_t = 0: the particles stay where they
\* are.
NextCall ==
  /\ pc = "done"
  /\ call_count < MaxCalls
  /\ pc' = "call"
  /\ UNCHANGED <<sys, config, version, clusters, clusters_size, call_count, arena,
                 arena_N, heap, root, bi, next_it, wk, wrote, a_ret, a_live, a_op, trav, enc, drv, gal, rec, km>>

(***************************************************************************)
(* Initial states: N particles on the lattice, every configuration.        *)
(***************************************************************************)
MaxK == 2

Coords(g) == {Unit * c : c \in 0 .. g}

Particles(n) ==
  {[N |-> n, pos_x |-> px, pos_y |-> py, mass |-> m,
    vx |-> [i \in Idx(n) |-> i], vy |-> [i \in Idx(n) |-> i],
    fx |-> ZeroForce(n), fy |-> ZeroForce(n)] :
     px \in [Idx(n) -> Coords(GridMaxX)], py \in [Idx(n) -> Coords(GridMaxY)],
     m \in [Idx(n) -> 1 .. MaxMass]}

\* The lattice inputs fill a single chunk, which one worker takes: they
\* run with one thread.  v1 reads no field of config, v2 and v3 read
\* theta_max only, v4 reads theta_max and use_arena.
Configs(n, v) ==
  [theta_max : IF v = 1 THEN {0} ELSE 0 .. MaxTheta,
   k_clusters : IF v = 5 THEN {k \in {0, MaxK} : k <= n} ELSE {0},
   n_threads : {1},
   use_arena : IF v \in {4, 5} THEN BOOLEAN ELSE {FALSE}]

InitStatics ==
  /\ km = NoKMeans
  /\ clusters = << >>
  /\ clusters_size = << >>
  /\ call_count = 0
  /\ arena = NullArena
  /\ arena_N = 0
  /\ heap = << >>
  /\ root = NULL
  /\ bi = 0
  /\ next_it = 0
  /\ a_ret = NULL
  /\ a_live = << >>
  /\ a_op = "none"

\* n particles of mass 1 on the lattice, cols to a row.
Rows(n, cols) ==
  [N |-> n, pos_x |-> [i \in Idx(n) |-> Unit * (i % cols)],
   pos_y |-> [i \in Idx(n) |-> Unit * (i \div cols)],
   mass |-> [i \in Idx(n) |-> 1],
   vx |-> [i \in Idx(n) |-> i], vy |-> [i \in Idx(n) |-> i],
   fx |-> ZeroForce(n), fy |-> ZeroForce(n)]

\* Inputs that fill more than one chunk of the parallel loop: one particle
\* more than a chunk in Morton mode, one cluster more than a chunk in
\* clustered mode.
TwoChunkInputs ==
  /\ version = 5
  /\ \/ /\ sys = Rows(MortonChunk + 1, ClusterChunk + 1)
        /\ config \in [theta_max : {0}, k_clusters : {0},
                       n_threads : 1 .. MaxThreads, use_arena : BOOLEAN]
     \/ /\ sys = Rows(ClusterChunk + 1, GridMaxX + 1)
        /\ config \in [theta_max : {0}, k_clusters : {ClusterChunk + 1},
                       n_threads : 1 .. MaxThreads, use_arena : BOOLEAN]

(***************************************************************************)
(* An input whose tree needs more than 10 * N nodes: two pairs of close    *)
(* particles at the two ends of a box of side 11 * 2^23.  The padding puts *)
(* the ends at 1/22 and 21/22 of the side; the grid lines of depth 23 are  *)
(* the multiples of 11, and the first one above the left end is 7 away     *)
(* from it, the first one below the right end 7 away from it, so each pair *)
(* is separated at depth 23 and not before.  Every midpoint down to that   *)
(* depth is an integer.                                                    *)
(***************************************************************************)
DeepSpan == 10 * 2 ^ 23

DeepInput ==
  /\ version = 5
  /\ sys = [N |-> 4,
            pos_x |-> [i \in Idx(4) |-> CASE i = 0 -> 0 [] i = 1 -> 8
                                          [] i = 2 -> DeepSpan - 7
                                          [] OTHER -> DeepSpan],
            pos_y |-> [i \in Idx(4) |-> 0],
            mass |-> [i \in Idx(4) |-> 1],
            vx |-> [i \in Idx(4) |-> i], vy |-> [i \in Idx(4) |-> i],
            fx |-> ZeroForce(4), fy |-> ZeroForce(4)]
  /\ config \in [theta_max : {0}, k_clusters : {0}, n_threads : {1},
                 use_arena : BOOLEAN]

(***************************************************************************)
(* An input off the lattice: two particles of masses 1 and 2 at the same   *)
(* place x = OffX, a third one a lattice unit to the right.  3 * OffX      *)
(* has more than MantBits bits, so the sum of line 74 is rounded, as       *)
(* 0.3 * 0.1 + 0.7 * 0.1 is in the build.  The box has side 176 and its    *)
(* first midpoints are integers.                                           *)
(***************************************************************************)
OffX == 2 ^ (MantBits - 1) + 46

OffLatticeInput ==
  /\ version = 5
  /\ sys = [N |-> 3,
            pos_x |-> [i \in Idx(3) |-> IF i = 2 THEN OffX + Unit ELSE OffX],
            pos_y |-> [i \in Idx(3) |-> 0],
            mass |-> [i \in Idx(3) |-> IF i = 1 THEN 2 ELSE 1],
            vx |-> [i \in Idx(3) |-> i], vy |-> [i \in Idx(3) |-> i],
            fx |-> ZeroForce(3), fy |-> ZeroForce(3)]
  /\ config \in [theta_max : {0}, k_clusters : {0}, n_threads : {1},
                 use_arena : BOOLEAN]

\* The same with a third particle at OffX: three particles at one place.
OffLatticeTriple ==
  /\ version = 5
  /\ sys = [N |-> 4,
            pos_x |-> [i \in Idx(4) |-> IF i = 3 THEN OffX + Unit ELSE OffX],
            pos_y |-> [i \in Idx(4) |-> 0],
            mass |-> [i \in Idx(4) |-> IF i = 1 THEN 2 ELSE 1],
            vx |-> [i \in Idx(4) |-> i], vy |-> [i \in Idx(4) |-> i],
            fx |-> ZeroForce(4), fy |-> ZeroForce(4)]
  /\ config \in [theta_max : {0}, k_clusters : {0}, n_threads : {1},
                 use_arena : BOOLEAN]

\* Two particles of masses 1 and 2 at the same place x = MidX, which is
\* the root's midline (the box is [MidX - 176, MidX + 176]), between a
\* particle a lattice unit to the left and one a lattice unit to the right.
\* 3 * MidX is rounded up and the rounded centre of mass is MidX + 1.
MidX == 2 ^ (MantBits - 1) + 50

OffLatticeMidline ==
  /\ version = 5
  /\ sys = [N |-> 4,
            pos_x |-> [i \in Idx(4) |-> IF i = 0 THEN MidX - Unit
                                        ELSE IF i = 3 THEN MidX + Unit ELSE MidX],
            pos_y |-> [i \in Idx(4) |-> 0],
            mass |-> [i \in Idx(4) |-> IF i = 1 THEN 2 ELSE 1],
            vx |-> [i \in Idx(4) |-> i], vy |-> [i \in Idx(4) |-> i],
            fx |-> ZeroForce(4), fy |-> ZeroForce(4)]
  /\ config \in [theta_max : {0}, k_clusters : {0}, n_threads : {1},
                 use_arena : BOOLEAN]

Init ==
  /\ \/ \E n \in 1 .. MaxN :
          /\ sys \in Particles(n)
          /\ version \in 1 .. 5
          /\ config \in Configs(n, version)
     \/ TwoChunkInputs
     \/ DeepInput
     \/ OffLatticeInput
     \/ OffLatticeTriple
     \/ OffLatticeMidline
  /\ InitStatics
  /\ trav = NoTraversal
  /\ enc = NoCodes
  /\ drv = NoDriver
  /\ gal = NoTeam
  /\ rec = << >>
  /\ pc = "call"
  /\ wk = IdleWorkers(config.n_threads)
  /\ wrote = ZeroForce(sys.N)

Next ==
  \/ CallNaive
  \/ CallSerial
  \/ CallSorted
  \/ InsertSerial
  \/ ForceSerial
  \/ CallMorton
  \/ CallClustered
  \/ Insert
  \/ \E w \in DOMAIN wk : Grab(w)
  \/ \E w \in DOMAIN wk : Step(w)
  \/ Join
  \/ NextCall

Spec == Init /\ [][Next]_vars

(***************************************************************************)
(* The arena alone (ds.h:42-66): any sequence of init_arena, arena_alloc,  *)
(* reset_arena and free_arena on one NodeArena.  As in the kernels, the    *)
(* arena is initialised when it has no buffer, and allocated from, reset   *)
(* and freed when it has one.                                              *)
(***************************************************************************)
ArenaFrame ==
  UNCHANGED <<sys, config, version, clusters, clusters_size, call_count,
              arena_N, heap, root, pc, bi, next_it, wk, wrote, trav, enc, drv, gal, rec, km>>

ArenaInit(size) ==
  /\ pc = "arena"
  /\ arena.buffer = << >>
  /\ arena' = init_arena(size)
  /\ a_live' = << >>
  /\ a_op' = "init"
  /\ UNCHANGED a_ret
  /\ ArenaFrame

ArenaAlloc ==
  /\ pc = "arena"
  /\ arena.buffer # << >>
  /\ \E r \in {arena_alloc(arena)} :
         /\ arena' = r.arena
         /\ a_ret' = r.ret
         /\ a_live' = IF r.ret = NULL THEN a_live ELSE Append(a_live, r.ret)
  /\ a_op' = "alloc"
  /\ ArenaFrame

ArenaReset ==
  /\ pc = "arena"
  /\ arena.buffer # << >>
  /\ arena' = reset_arena(arena)
  /\ a_live' = << >>
  /\ a_op' = "reset"
  /\ UNCHANGED a_ret
  /\ ArenaFrame

ArenaFree ==
  /\ pc = "arena"
  /\ arena.buffer # << >>
  /\ arena' = free_arena(arena)
  /\ a_live' = << >>
  /\ a_op' = "free"
  /\ UNCHANGED a_ret
  /\ ArenaFrame

InitArena ==
  /\ trav = NoTraversal
  /\ enc = NoCodes
  /\ drv = NoDriver
  /\ gal = NoTeam
  /\ rec = << >>
  /\ sys = Rows(1, 1)
  /\ config = [theta_max |-> 0, k_clusters |-> 0, n_threads |-> 1,
               use_arena |-> TRUE]
  /\ version = 0
  /\ InitStatics
  /\ pc = "arena"
  /\ wk = IdleWorkers(1)
  /\ wrote = ZeroForce(1)

NextArena ==
  \/ \E size \in 1 .. MaxCap : ArenaInit(size)
  \/ ArenaAlloc
  \/ ArenaReset
  \/ ArenaFree

SpecArena == InitArena /\ [][NextArena]_vars

(***************************************************************************)
(* The explicit stacks alone: compute_force_single of v5_parallel.c        *)
(* (stack[2048], line 130) and compute_force_stackless of barnes_hut.c     *)
(* (stack[256], line 216), followed one loop iteration at a time with      *)
(* theta = 0 on the tree the builder makes of a "comb" of 3 * L + 2        *)
(* particles: one far particle, and L nested boxes that halve towards the  *)
(* origin, each holding one particle in each of three quadrants and the    *)
(* next box in the fourth, the last box holding one particle there.  The   *)
(* nested quadrant is the one the loop pops first: child[3] in             *)
(* v5_parallel.c (the boxes are in the root's child[0], box                *)
(* [-1.1 A, 1.1 A]^2, particles at (A, A), (-A f, -A f), (-A f, -0.3 A f), *)
(* (-0.3 A f, -A f) for f = 1, 1/2 .. 2^-(L-1) and (-A f, -A f) for        *)
(* f = 2^-L), child[0] in barnes_hut.c (the boxes are in the root's        *)
(* child[3], region [-1e5, 1e5]^2 of galsim.c:105).  The coordinates span  *)
(* L binary orders of magnitude, which the doubles of the code hold        *)
(* (A = 2^1000 keeps the width of every box above the 1e-12 of             *)
(* v5_parallel.c:70) and the integers of this module do not: the tree is   *)
(* given by its links, PIDs and masses, and the geometry, which the loops  *)
(* do not read with theta = 0 but in a comparison that is false for every  *)
(* box of positive width, is left 0.                                       *)
(***************************************************************************)
CombLevels == 683
LegacyLevels == 86
LegacyStackCap == 256

\* The comb of L boxes: the root is 1, the far particle's leaf 2, box k
\* (0 .. L-1) is 3 + 4k and its three leaves follow it, the last leaf is
\* 3 + 4L.  rootq is the root's quadrant of the boxes and 3 - rootq the
\* nested quadrant.
CombTree(L, rootq) ==
  LET box(k) == 3 + 4 * k
      leafnode(pid) ==
        [LB |-> 0, RB |-> 0, DB |-> 0, UB |-> 0,
         child |-> [q \in Quadrants |-> NULL],
         mx |-> 0, my |-> 0, mass |-> 1, PID |-> pid]
  IN  [h \in 1 .. 3 + 4 * L |->
         IF h = 1
           THEN [leafnode(NoPID) EXCEPT
                   !.mass = 3 * L + 2,
                   !.child = [q \in Quadrants |->
                                IF q = rootq THEN box(0)
                                ELSE IF q = 3 - rootq THEN 2 ELSE NULL]]
         ELSE IF h = 2 \/ h = 3 + 4 * L \/ (h - 3) % 4 # 0
           THEN leafnode(IF h = 2 THEN 0
                         ELSE IF h = 3 + 4 * L THEN 3 * L + 1
                         ELSE h - 3 - (h - 3) \div 4)
         ELSE [leafnode(NoPID) EXCEPT
                 !.mass = 3 * (L - (h - 3) \div 4) + 1,
                 !.child = [q \in Quadrants |->
                              IF q = 3 - rootq THEN h + 4
                              ELSE h + 1 + (IF q > 3 - rootq THEN q - 1 ELSE q)]]]

(***************************************************************************)
(* barnes_hut.c:224-250, one iteration of the loop of                      *)
(* compute_force_stackless.  Line 239 opens a node unless                  *)
(* width / sqrt(dist_sq) <= THETA_MAX, dist_sq the squared distance to the *)
(* middle of the box; the children are pushed in the order 3, 2, 1, 0,     *)
(* each if non-NULL, with no test of sp.                                   *)
(***************************************************************************)
compute_force_stackless(mem, st, px, py, PID, theta) ==
  LET sp == Len(st.stack)
      node == mem[st.stack[sp]]
      rest == SubSeq(st.stack, 1, sp - 1)
      width == node.RB - node.LB
      dx == 2 * px - (node.LB + node.RB)
      dy == 2 * py - (node.DB + node.UB)
      kids == SelectSeq([q \in 1 .. 4 |-> node.child[4 - q]], LAMBDA c : c # NULL)
  IN  IF node.PID = PID
        THEN [st EXCEPT !.stack = rest]
      ELSE IF \/ node.PID # NoPID
              \/ theta # 0 /\ 4 * width * width <= theta * theta * (dx * dx + dy * dy)
        THEN [stack |-> rest,
              acc |-> [st.acc EXCEPT !.f = Append(@, _compute_force(node))]]
      ELSE [stack |-> rest \o kids, acc |-> st.acc]

StackFrame ==
  UNCHANGED <<sys, config, version, clusters, clusters_size, call_count, arena,
              arena_N, heap, root, bi, next_it, wk, wrote, a_ret, a_live, a_op,
              enc, drv, gal, rec, km>>

\* The tree of the run: the comb of the kernel's depth.
CombMem ==
  IF version = 5 THEN CombTree(CombLevels, 0) ELSE CombTree(LegacyLevels, 3)

\* v5_parallel.c:135-159, one iteration, for particle bi.
StepV5 ==
  /\ pc = "stack"
  /\ version = 5
  /\ trav.stack # << >>
  /\ trav' = TraverseStep(CombMem, trav, 0, 0, bi, config.theta_max)
  /\ pc' = pc
  /\ StackFrame

\* barnes_hut.c:224-250, one iteration, for particle bi.  A store to
\* stack[256] or beyond is outside the array: the process may be killed,
\* or the store may land in memory nothing else uses and the loop go on.
StepLegacy ==
  /\ pc = "stack"
  /\ version = 0
  /\ trav.stack # << >>
  /\ trav' = compute_force_stackless(CombMem, trav, 0, 0, bi, config.theta_max)
  /\ pc' \in IF Len(trav'.stack) > LegacyStackCap THEN {"stack", "segv"}
                                                  ELSE {"stack"}
  /\ StackFrame

\* The loop is entered with the root pushed (v5_parallel.c:132-133,
\* barnes_hut.c:220-221), for the far particle or for the innermost one.
\* The particle arrays and the node memory are not held in the state.
InitStack ==
  /\ version \in {0, 5}
  /\ bi \in {0, 3 * (IF version = 5 THEN CombLevels ELSE LegacyLevels) + 1}
  /\ sys = Rows(1, 1)
  /\ config = [theta_max |-> 0, k_clusters |-> 0, n_threads |-> 1,
               use_arena |-> FALSE]
  /\ clusters = << >>
  /\ clusters_size = << >>
  /\ call_count = 1
  /\ arena = NullArena
  /\ arena_N = 0
  /\ heap = << >>
  /\ root = 1
  /\ next_it = 0
  /\ a_ret = NULL
  /\ a_live = << >>
  /\ a_op = "none"
  /\ km = NoKMeans
  /\ enc = NoCodes
  /\ drv = NoDriver
  /\ gal = NoTeam
  /\ rec = << >>
  /\ trav = [NoTraversal EXCEPT !.stack = <<root>>]
  /\ pc = "stack"
  /\ wk = IdleWorkers(1)
  /\ wrote = ZeroForce(1)

NextStack ==
  \/ StepV5
  \/ StepLegacy

SpecStack == InitStack /\ [][NextStack]_vars

(***************************************************************************)
(* z_order_sort alone (utils/kmeans.c:198-254), called as the kernels call *)
(* it (v5_parallel.c:194, v4_morton.c:159) with the padded square box of   *)
(* the positions, any number of times, on particle arrays whose forces are *)
(* not zero: fx[i] and fy[i] hold one term that names the particle.        *)
(***************************************************************************)
SortCall ==
  /\ pc = "sort"
  /\ \E bx \in {SquareBox(sys.pos_x, sys.pos_y, sys.N)} :
     \E codes \in {MortonCodes(sys.pos_x, sys.pos_y, sys.N, bx)} :
     \E ord \in SortedOrders(codes, sys.N) :
       sys' = z_order_sort(sys, ord)
  /\ UNCHANGED <<config, version, clusters, clusters_size, call_count, arena,
                 arena_N, heap, root, pc, bi, next_it, wk, wrote, a_ret,
                 a_live, a_op, trav, enc, drv, gal, rec, km>>

InitSort ==
  /\ \E n \in 1 .. MaxN :
     \E s \in Particles(n) :
       sys = [s EXCEPT
                !.fx = [i \in Idx(n) |-> <<[mass |-> i + 1, mx |-> 0, my |-> 0]>>],
                !.fy = [i \in Idx(n) |-> <<[mass |-> i + 1, mx |-> 0, my |-> 0]>>]]
  /\ config = [theta_max |-> 0, k_clusters |-> 0, n_threads |-> 1,
               use_arena |-> FALSE]
  /\ version = 5
  /\ InitStatics
  /\ trav = NoTraversal
  /\ enc = NoCodes
  /\ drv = NoDriver
  /\ gal = NoTeam
  /\ rec = << >>
  /\ pc = "sort"
  /\ wk = IdleWorkers(1)
  /\ wrote = ZeroForce(sys.N)

NextSort ==
  \/ SortCall

SpecSort == InitSort /\ [][NextSort]_vars

(***************************************************************************)
(* The Morton encoders alone: morton_encode of utils/kmeans.c:171-181 (the *)
(* loop) and the two morton_encode_magicbits, of src/morton.c:6-18 and of  *)
(* v5_parallel/morton.c:6-18, applied to the same pair of 32-bit grid      *)
(* coordinates.  A 64-bit word is kept as the set of the positions of its  *)
(* 1 bits.                                                                 *)
(***************************************************************************)
EncDigit == 3

\* The word written digits, most significant digit first, w bits a digit.
WordBits(digits, w) ==
  {p \in 0 .. w * Len(digits) - 1 :
     (digits[Len(digits) - p \div w] \div 2 ^ (p % w)) % 2 = 1}

\* (x | x << k) & mask, in 64 bits; mask in hexadecimal digits.
MagicStep(x, k, mask) ==
  (x \cup ({b + k : b \in x} \cap 0 .. 63)) \cap WordBits(mask, 4)

\* src/morton.c:6-14.
split_by_3(a) ==
  LET x0 == a \cap WordBits(<<1, 15, 15, 15, 15, 15>>, 4)
      x1 == MagicStep(x0, 32, <<1, 15, 0, 0, 0, 0, 0, 0, 0, 0, 15, 15, 15, 15>>)
      x2 == MagicStep(x1, 16, <<1, 15, 0, 0, 0, 0, 15, 15, 0, 0, 0, 0, 15, 15>>)
      x3 == MagicStep(x2, 8, <<1, 0, 0, 15, 0, 0, 15, 0, 0, 15, 0, 0, 15, 0, 0, 15>>)
      x4 == MagicStep(x3, 4, <<1, 0, 12, 3, 0, 12, 3, 0, 12, 3, 0, 12, 3, 0, 12, 3>>)
  IN  MagicStep(x4, 2, <<1, 2, 4, 9, 2, 4, 9, 2, 4, 9, 2, 4, 9, 2, 4, 9>>)

\* v5_parallel/morton.c:6-14.
split_by_2(a) ==
  LET x0 == a \cap WordBits(<<15, 15, 15, 15, 15, 15, 15, 15>>, 4)
      x1 == MagicStep(x0, 16, <<0, 0, 0, 0, 15, 15, 15, 15, 0, 0, 0, 0, 15, 15, 15, 15>>)
      x2 == MagicStep(x1, 8, <<0, 0, 15, 15, 0, 0, 15, 15, 0, 0, 15, 15, 0, 0, 15, 15>>)
      x3 == MagicStep(x2, 4, <<0, 15, 0, 15, 0, 15, 0, 15, 0, 15, 0, 15, 0, 15, 0, 15>>)
      x4 == MagicStep(x3, 2, <<3, 3, 3, 3, 3, 3, 3, 3, 3, 3, 3, 3, 3, 3, 3, 3>>)
  IN  MagicStep(x4, 1, <<5, 5, 5, 5, 5, 5, 5, 5, 5, 5, 5, 5, 5, 5, 5, 5>>)

\* src/morton.c:16-18: split_by_3(x) | (split_by_3(y) << 1).
morton_encode_magicbits(x, y) ==
  split_by_3(x) \cup ({b + 1 : b \in split_by_3(y)} \cap 0 .. 63)

\* v5_parallel/morton.c:16-18: split_by_2(x) | (split_by_2(y) << 1).
morton_encode_magicbits_v5(x, y) ==
  split_by_2(x) \cup ({b + 1 : b \in split_by_2(y)} \cap 0 .. 63)

EncodeCall ==
  /\ pc = "encode"
  /\ ~ enc.done
  /\ enc' = [ix |-> enc.ix, iy |-> enc.iy, done |-> TRUE,
             loop |-> WordBits(morton_encode(enc.ix, enc.iy), 8),
             magic |-> morton_encode_magicbits(WordBits(enc.ix, 4),
                                               WordBits(enc.iy, 4)),
             magic_v5 |-> morton_encode_magicbits_v5(WordBits(enc.ix, 4),
                                                     WordBits(enc.iy, 4))]
  /\ UNCHANGED <<sys, config, version, clusters, clusters_size, call_count,
                 arena, arena_N, heap, root, pc, bi, next_it, wk, wrote, a_ret,
                 a_live, a_op, trav, drv, gal, rec, km>>

\* Grid coordinates with bits at both ends of the 32.
InitEncode ==
  /\ \E xh, xl, yh, yl \in 0 .. EncDigit :
       enc = [ix |-> <<xh, 0, 0, 0, 0, 0, 0, xl>>,
              iy |-> <<yh, 0, 0, 0, 0, 0, 0, yl>>, done |-> FALSE]
  /\ sys = Rows(1, 1)
  /\ config = [theta_max |-> 0, k_clusters |-> 0, n_threads |-> 1,
               use_arena |-> FALSE]
  /\ version = 0
  /\ InitStatics
  /\ trav = NoTraversal
  /\ drv = NoDriver
  /\ gal = NoTeam
  /\ rec = << >>
  /\ pc = "encode"
  /\ wk = IdleWorkers(1)
  /\ wrote = ZeroForce(1)

NextEncode ==
  \/ EncodeCall

SpecEncode == InitEncode /\ [][NextEncode]_vars

(***************************************************************************)
(* The properties.  Handles are the nodes of the tree of the call in       *)
(* progress; TreeBuilt holds between two insertions and when the tree is   *)
(* handed to the force loop.                                               *)
(***************************************************************************)
Handles == 1 .. Live(Store)

Node(h) == NodeAt(Store, h)

Children(n) == {n.child[q] : q \in Quadrants} \ {NULL}

TreeBuilt == pc = "build" \/ (pc = "force" /\ next_it = 0)

SamePlace(i, j) == sys.pos_x[i] = sys.pos_x[j] /\ sys.pos_y[i] = sys.pos_y[j]

DistinctPositions == \A i, j \in Idx(sys.N) : SamePlace(i, j) => i = j

\* The sum of f over lo .. hi, by halves.
RECURSIVE SumRange(_, _, _)
SumRange(f, lo, hi) ==
  IF lo > hi THEN 0
  ELSE IF lo = hi THEN f[lo]
  ELSE SumRange(f, lo, (lo + hi) \div 2) + SumRange(f, (lo + hi) \div 2 + 1, hi)

TotalMass == Bind(LAMBDA m : SumRange(m, 0, sys.N - 1), sys.mass)

BagOf(seq) ==
  [x \in {seq[t] : t \in DOMAIN seq} |-> Cardinality({t \in DOMAIN seq : seq[t] = x})]

\* The leaves of the tree but the one of particle i, and the bag of the
\* terms they would add.
LeavesBut(i) == {h \in Handles : Node(h).PID >= 0 /\ Node(h).PID # i}

LeafBag(i) ==
  [x \in {_compute_force(Node(h)) : h \in LeavesBut(i)} |->
     Cardinality({h \in LeavesBut(i) : _compute_force(Node(h)) = x})]

\* What compute_force_single adds to the force on particle i, from the
\* tree of the state.
TreeForce(i) ==
  compute_force_single(Mem(Store), root, sys.pos_x[i], sys.pos_y[i], i,
                       config.theta_max)

(***************************************************************************)
(* C1.  In a call of the parallel kernel, in Morton mode and in clustered  *)
(* mode alike: the force slot of an index is written at most once, only by *)
(* a worker whose chunk holds the index, and when the call returns the     *)
(* slot of every index 0 .. N-1 has been written exactly once.             *)
(***************************************************************************)
C1_OneWriterPerSlot ==
  (version = 5 /\ pc \in {"force", "done"}) =>
    \A i \in Idx(sys.N) :
      /\ Len(wrote[i]) <= 1
      /\ \A e \in DOMAIN wrote[i] :
           i \in ChunkMembers(wrote[i][e].lo, wrote[i][e].hi)
      /\ pc = "done" => Len(wrote[i]) = 1

(***************************************************************************)
(* C2.  When all chunks of the parallel loop are done, fx[i] and fy[i] of  *)
(* every index the loop names are the terms of the one traversal of the    *)
(* tree for i, in the traversal's order, and the other slots are as the    *)
(* reset left them: the values do not depend on the number of workers, on  *)
(* who took which chunk or on the interleaving.                            *)
(***************************************************************************)
C2_ScheduleIndependent ==
  JoinReady =>
    \A i \in Idx(sys.N) :
      \E f \in {IF i \in ChunkMembers(0, Total) THEN TreeForce(i).f ELSE << >>} :
        sys.fx[i] = f /\ sys.fy[i] = f

C2_Witness ==
  /\ JoinReady
  /\ sys.N > MortonChunk
  /\ \E i, j \in Idx(sys.N) :
       /\ wrote[i] # << >> /\ wrote[i][1].w = 1
       /\ wrote[j] # << >> /\ wrote[j][1].w = 2

(***************************************************************************)
(* C3.  A step of the parallel force loop changes no node of the tree, not *)
(* the arena (its used counter included), not the root, not the cluster    *)
(* tables and no field of the particle system but fx and fy.               *)
(***************************************************************************)
C3_WorkersReadOnly ==
  [][(version = 5 /\ pc = "force" /\ pc' = "force") =>
       /\ arena' = arena
       /\ heap' = heap
       /\ root' = root
       /\ clusters' = clusters
       /\ clusters_size' = clusters_size
       /\ sys' = [sys EXCEPT !.fx = sys'.fx, !.fy = sys'.fy]]_vars

C3_Witness ==
  /\ version = 5
  /\ pc = "force"
  /\ Live(Store) > 1
  /\ config.n_threads = 2
  /\ \E i, j \in Idx(sys.N) :
       /\ wrote[i] # << >> /\ wrote[i][1].w = 1
       /\ wrote[j] # << >> /\ wrote[j][1].w = 2

(***************************************************************************)
(* C4.  On an initialised arena, through any sequence of allocations and   *)
(* resets: an allocation succeeds exactly when used < size, then returns   *)
(* the slot at the old value of used (handle used + 1) and adds 1 to used; *)
(* otherwise it returns NULL and leaves used alone.  0 <= used <= size     *)
(* always, and the slots returned since the last reset are all different.  *)
(***************************************************************************)
C4_ArenaContract ==
  /\ [](pc = "arena" =>
          /\ 0 <= arena.used
          /\ arena.used <= arena.size
          /\ \A s, t \in DOMAIN a_live : a_live[s] = a_live[t] => s = t)
  /\ [][(pc = "arena" /\ a_op' = "alloc") =>
          IF arena.used < arena.size
            THEN a_ret' = arena.used + 1 /\ arena'.used = arena.used + 1
            ELSE a_ret' = NULL /\ arena'.used = arena.used]_vars

C4_Witness ==
  /\ pc = "arena"
  /\ a_op = "alloc"
  /\ a_ret = NULL
  /\ arena.size >= 2
  /\ arena.used = arena.size
  /\ Len(a_live) = arena.size

C6_MassAggregation ==
  (version = 5 /\ TreeBuilt) =>
    /\ \A h \in Handles :
         \E n \in {Node(h)} :
           IF n.PID = NoPID
             THEN n.mass = SumRange([q \in Quadrants |->
                                       IF n.child[q] = NULL THEN 0
                                       ELSE Node(n.child[q]).mass], 0, 3)
             ELSE \E S \in SUBSET {j \in Idx(bi) :
                                     /\ SamePlace(j, n.PID)
                                     /\ \A g \in Handles : Node(g).PID # j} :
                    n.mass = sys.mass[n.PID]
                               + SumRange([j \in Idx(bi) |->
                                             IF j \in S THEN sys.mass[j] ELSE 0],
                                          0, bi - 1)
    /\ SumRange([h \in Handles |->
                   IF Node(h).PID = NoPID THEN 0 ELSE Node(h).mass],
                1, Live(Store))
         = SumRange(sys.mass, 0, bi - 1)

C6_Witness ==
  /\ version = 5
  /\ pc = "force"
  /\ \E h \in Handles : Node(h).PID = NoPID /\ Cardinality(Children(Node(h))) >= 2
  /\ \E h \in Handles :
       /\ Node(h).PID # NoPID
       /\ \E j \in Idx(sys.N) : j # Node(h).PID /\ SamePlace(j, Node(h).PID)

(***************************************************************************)
(* C7.  When a serial tree kernel (v2, v3, v4) has built its tree, the     *)
(* mass of the root is the sum of the masses of the N particles.           *)
(***************************************************************************)
C7_RootMassIsTotal ==
  (version \in {2, 3, 4} /\ pc = "force") => Node(root).mass = TotalMass

(***************************************************************************)
(* C8.  In the tree handed to the force loop (of v5 and of the serial tree *)
(* kernels) every node is a leaf, with PID >= 0 and no child, or internal, *)
(* with PID < 0 and at least one child.                                    *)
(***************************************************************************)
C8_LeafOrInternal ==
  (version \in 2 .. 5 /\ pc = "force") =>
    \A h \in Handles :
      \E n \in {Node(h)} :
        \/ n.PID >= 0 /\ Children(n) = {}
        \/ n.PID < 0 /\ Children(n) # {}

C8_Witness ==
  /\ version = 4
  /\ pc = "force"
  /\ \E h \in Handles : h # root /\ Node(h).PID = NoPID
  /\ \E h \in Handles : Node(h).PID >= 0

(***************************************************************************)
(* C9.  In the tree after every insertion, of every builder: no two nodes  *)
(* have the same PID and no node has a PID other than that of a particle   *)
(* inserted so far; each of these particles that has no earlier particle   *)
(* at its position is the PID of exactly one node; each of the others is   *)
(* the PID of one node or (merged) of none, and then an earlier particle   *)
(* at its position is the PID of a node.                                   *)
(***************************************************************************)
C9_LeafPids ==
  (version \in 2 .. 5 /\ TreeBuilt) =>
    /\ \A h \in Handles : Node(h).PID \in {NoPID} \cup Idx(bi)
    /\ \A i \in Idx(bi) :
         \E c \in {Cardinality({h \in Handles : Node(h).PID = i})} :
           /\ c <= 1
           /\ c = 0 => \E j \in Idx(i) :
                         /\ SamePlace(i, j)
                         /\ \E h \in Handles : Node(h).PID = j

C9_Witness ==
  /\ version = 5
  /\ pc = "force"
  /\ sys.N = 3
  /\ SamePlace(0, 2)
  /\ ~ SamePlace(0, 1)
  /\ Cardinality({h \in Handles : Node(h).PID >= 0}) = 2

Pulls(t, p) ==
  t.mx # t.mass * sys.pos_x[p] \/ t.my # t.mass * sys.pos_y[p]

OnlyPair(i, j) ==
  /\ i < j
  /\ SamePlace(i, j)
  /\ \A a, b \in Idx(sys.N) : SamePlace(a, b) => (a = b \/ {a, b} = {i, j})

C11_CoincidentPair ==
  /\ (version = 5 /\ pc \in {"exit1", "segv"}) =>
       ~ \E i, j \in Idx(sys.N) : OnlyPair(i, j)
  /\ (version = 5 /\ pc = "force" /\ next_it = 0 /\ config.theta_max = 0) =>
       \A i, j \in Idx(sys.N) :
         OnlyPair(i, j) =>
           /\ \E h \in Handles :
                /\ Node(h).PID = i
                /\ Children(Node(h)) = {}
                /\ Node(h).mass = sys.mass[i] + sys.mass[j]
           /\ ~ \E h \in Handles : Node(h).PID = j
           /\ \A p \in {i, j} :
                BagOf(SelectSeq(TreeForce(p).f, LAMBDA t : Pulls(t, p)))
                  = BagOf(SelectSeq(NaiveForce(sys.pos_x, sys.pos_y, sys.mass,
                                               sys.N, p),
                                    LAMBDA t : Pulls(t, p)))

(***************************************************************************)
(* C12.  While a particle's force is evaluated the explicit stack holds no *)
(* more entries than the array has room for (2048 in compute_force_single, *)
(* 256 in the legacy compute_force_stackless), the process is not killed   *)
(* by a store outside it, and no non-NULL child of an opened node has been *)
(* left out because the stack was full.                                    *)
(***************************************************************************)
C12_StackWithinBound ==
  pc \in {"stack", "segv"} =>
    /\ pc = "stack"
    /\ Len(trav.stack) <= IF version = 5 THEN StackCap ELSE LegacyStackCap
    /\ trav.acc.dropped = 0

(***************************************************************************)
(* C13.  A call of z_order_sort applies one permutation pi of 0 .. N-1 to  *)
(* all seven per-particle arrays (index i holds afterwards what pi(i) held *)
(* before), so the multiset of per-particle tuples is unchanged, and       *)
(* afterwards the Morton codes of the particles are non-decreasing in      *)
(* index order.                                                            *)
(***************************************************************************)
Tuple(s, i) ==
  <<s.pos_x[i], s.pos_y[i], s.mass[i], s.vx[i], s.vy[i], s.fx[i], s.fy[i]>>

CodesOf(s) == MortonCodes(s.pos_x, s.pos_y, s.N, SquareBox(s.pos_x, s.pos_y, s.N))

InMortonOrder(s) ==
  \A i, j \in Idx(s.N) :
    i < j => compare_entries(CodesOf(s)[i], CodesOf(s)[j]) <= 0

C14_SortedStaysPut ==
  [][(pc = "sort" /\ InMortonOrder(sys)) => sys' = sys]_vars

(***************************************************************************)
(* C15.  For grid coordinates ix, iy the loop encoder and the magic-bits   *)
(* encoders return the same 64-bit code (for the encoder of src/morton.c,  *)
(* which keeps 21 bits of each coordinate, when ix and iy are below 2^21), *)
(* and in that code bit 2j is bit j of ix and bit 2j + 1 is bit j of iy,   *)
(* which determines ix and iy.                                             *)
(***************************************************************************)
C15_EncodersAgree ==
  (pc = "encode" /\ enc.done) =>
    /\ enc.magic_v5 = enc.loop
    /\ (enc.ix[1] = 0 /\ enc.iy[1] = 0) => enc.magic = enc.loop
    /\ \A j \in 0 .. GridBits - 1 :
         /\ 2 * j \in enc.loop <=> j \in WordBits(enc.ix, 4)
         /\ 2 * j + 1 \in enc.loop <=> j \in WordBits(enc.iy, 4)

(***************************************************************************)
(* C16.  No step of a kernel call (from the call to the return: the        *)
(* preparation, the insertions, the force loop) moves a particle to        *)
(* another index: the position, mass and velocity arrays hold at every     *)
(* index what they held before the step.                                   *)
(***************************************************************************)
C16_KernelKeepsOrder ==
  [][(pc = "call" \/ pc = "build" \/ pc = "force") =>
       /\ sys'.pos_x = sys.pos_x
       /\ sys'.pos_y = sys.pos_y
       /\ sys'.mass = sys.mass
       /\ sys'.vx = sys.vx
       /\ sys'.vy = sys.vy]_vars

(***************************************************************************)
(* core/main.c: the driver.                                                *)
(*                                                                         *)
(* The arithmetic of the integrator is kept symbolic, so that which value  *)
(* went into which update can be read off the result.  A value is a tuple  *)
(* that starts with the operation that made it:                            *)
(*   <<0, a, i>>            array a of particle i as read from the file    *)
(*                          (io.c:39-45; a = 0 .. 6 for pos_x, pos_y,      *)
(*                          mass, vx, vy, fx, fy)                          *)
(*   <<1, h, v, f, m>>      v + 0.5 * dt * f / m, in the first (h = 1,     *)
(*                          lines 106-109) or second (h = 2, lines         *)
(*                          119-122) kick of a step                        *)
(*   <<2, x, v>>            x + dt * v (lines 110-111)                     *)
(*   <<3, c, a, X, Y, M, i>> component a of the force that kernel call c   *)
(*                          returned at index i, computed from the arrays  *)
(*                          X, Y, M.                                       *)
(* dt is the same in every update and is left out of the terms.            *)
(* The driver's pc is "main" before line 27, "kernel" at lines 95 and 115, *)
(* "top" at the loop test of line 98, "kick1" and "kick2" at the loop      *)
(* tests of lines 105 and 118, with bi the loop variable i, "exit0" and    *)
(* "exit1" after the return or exit.  call_count is the number of kernel   *)
(* calls made.                                                             *)
(***************************************************************************)
MaxSteps == 2
DrvMaxN == 2

\* The iteration with the two updates exchanged.
KickDriftOne_driftfirst(s, i) ==
  LET kx == <<1, 1, s.vx[i], s.fx[i], s.mass[i]>>
      ky == <<1, 1, s.vy[i], s.fy[i], s.mass[i]>>
  IN  [s EXCEPT !.vx[i] = kx, !.vy[i] = ky,
                !.pos_x[i] = <<2, s.pos_x[i], s.vx[i]>>,
                !.pos_y[i] = <<2, s.pos_y[i], s.vy[i]>>]

\* Lines 105-112, one iteration: the velocity is kicked, then the position
\* drifts with the kicked velocity.
KickDriftOne(s, i) ==
  LET kx == <<1, 1, s.vx[i], s.fx[i], s.mass[i]>>
      ky == <<1, 1, s.vy[i], s.fy[i], s.mass[i]>>
  IN  [s EXCEPT !.vx[i] = kx, !.vy[i] = ky,
                !.pos_x[i] = <<2, s.pos_x[i], kx>>,
                !.pos_y[i] = <<2, s.pos_y[i], ky>>]

DrvFrame ==
  UNCHANGED <<clusters, clusters_size, arena, arena_N, heap, root, next_it,
              wk, wrote, a_ret, a_live, a_op, trav, enc, gal, rec, km>>

(***************************************************************************)
(* Lines 27-88.  argc < 9 returns 1.  N, nsteps, delta_t and theta_max     *)
(* are converted and stored, none is compared with anything.               *)
(* io_read_particles (io.c:5-50) exits with 1 when an allocation returns   *)
(* NULL (N < 0 asks for more than the address space; malloc(0) may return  *)
(* NULL or not), when the file cannot be opened, and when a read of one of *)
(* the N particles fails.  A version outside 1 .. 5 returns 1.  Line 86    *)
(* creates movie.gal.                                                      *)
(***************************************************************************)
DrvStart ==
  /\ pc = "main"
  /\ \E mem \in IF drv.N < 0 THEN {FALSE}
                ELSE IF drv.N = 0 THEN BOOLEAN ELSE {TRUE} :
       IF \/ drv.argc < 9
          \/ ~mem
          \/ drv.file = "missing"
          \/ drv.file = "short" /\ drv.N > 0
          \/ version \notin 1 .. 5
         THEN /\ pc' = "exit1"
              /\ UNCHANGED <<sys, drv>>
         ELSE /\ sys' = [N |-> drv.N,
                         pos_x |-> [i \in Idx(drv.N) |-> <<0, 0, i>>],
                         pos_y |-> [i \in Idx(drv.N) |-> <<0, 1, i>>],
                         mass |-> [i \in Idx(drv.N) |-> <<0, 2, i>>],
                         vx |-> [i \in Idx(drv.N) |-> <<0, 3, i>>],
                         vy |-> [i \in Idx(drv.N) |-> <<0, 4, i>>],
                         fx |-> [i \in Idx(drv.N) |-> <<0, 5, i>>],
                         fy |-> [i \in Idx(drv.N) |-> <<0, 6, i>>]]
              /\ drv' = [drv EXCEPT !.files = {"movie.gal"}]
              /\ pc' = "kernel"
  /\ UNCHANGED <<config, version, call_count, bi>>
  /\ DrvFrame

(***************************************************************************)
(* Lines 95 and 115: kernel(&sys, &config).  v4 and v5 reorder the         *)
(* particle arrays with z_order_sort (v4_morton.c:159, v5_parallel.c:194); *)
(* which order comes out depends on the positions, here any.  Every kernel *)
(* then stores a force for every index.                                    *)
(***************************************************************************)
DrvKernel ==
  /\ pc = "kernel"
  /\ \E ord \in {o \in [Idx(sys.N) -> Idx(sys.N)] :
                   /\ \A i, j \in Idx(sys.N) : o[i] = o[j] => i = j
                   /\ version \in {4, 5} \/ \A i \in Idx(sys.N) : o[i] = i} :
       LET s == z_order_sort(sys, ord)
       IN  sys' = [s EXCEPT
                     !.fx = [i \in Idx(s.N) |->
                               <<3, call_count + 1, 0, s.pos_x, s.pos_y,
                                 s.mass, i>>],
                     !.fy = [i \in Idx(s.N) |->
                               <<3, call_count + 1, 1, s.pos_x, s.pos_y,
                                 s.mass, i>>]]
  /\ call_count' = call_count + 1
  /\ pc' = IF call_count = 0 THEN "top" ELSE "kick2"
  /\ bi' = 0
  /\ UNCHANGED <<config, version, drv>>
  /\ DrvFrame

\* Lines 98-102 and 126-132: the loop test, the frame of every tenth step,
\* and after the last step result.gal and the return of 0.
DrvTop ==
  /\ pc = "top"
  /\ IF drv.step < drv.nsteps
       THEN /\ pc' = "kick1"
            /\ bi' = 0
            /\ UNCHANGED drv
       ELSE /\ pc' = "exit0"
            /\ drv' = [drv EXCEPT !.files = @ \cup {"result.gal"}]
            /\ UNCHANGED bi
  /\ UNCHANGED <<sys, config, version, call_count>>
  /\ DrvFrame

\* Lines 105-112.
DrvKickDrift ==
  /\ pc = "kick1"
  /\ IF bi < sys.N
       THEN /\ sys' = KickDriftOne(sys, bi)
            /\ bi' = bi + 1
            /\ UNCHANGED pc
       ELSE /\ pc' = "kernel"
            /\ UNCHANGED <<sys, bi>>
  /\ UNCHANGED <<config, version, call_count, drv>>
  /\ DrvFrame

\* Lines 118-123, and step++ of line 98.
DrvKick2 ==
  /\ pc = "kick2"
  /\ IF bi < sys.N
       THEN /\ sys' = [sys EXCEPT
                         !.vx[bi] = <<1, 2, @, sys.fx[bi], sys.mass[bi]>>,
                         !.vy[bi] = <<1, 2, @, sys.fy[bi], sys.mass[bi]>>]
            /\ bi' = bi + 1
            /\ UNCHANGED <<pc, drv>>
       ELSE /\ pc' = "top"
            /\ drv' = [drv EXCEPT !.step = @ + 1]
            /\ UNCHANGED <<sys, bi>>
  /\ UNCHANGED <<config, version, call_count>>
  /\ DrvFrame

\* The driver is started with any arguments: too few or enough, a version
\* that exists or not, and N, delta_t and theta_max negative, zero or
\* positive.
InitDriver ==
  /\ InitStatics
  /\ trav = NoTraversal
  /\ enc = NoCodes
  /\ gal = NoTeam
  /\ rec = << >>
  /\ sys = Rows(1, 1)
  /\ version \in {1, 5, 7}
  /\ config \in [theta_max : -1 .. 1, k_clusters : {0}, n_threads : {1},
                 use_arena : {FALSE}]
  /\ drv \in [argc : {8, 9}, N : -1 .. DrvMaxN,
              file : {"ok", "missing", "short"}, nsteps : 0 .. MaxSteps,
              dt : -1 .. 1, step : {0}, files : {{}}]
  /\ pc = "main"
  /\ wk = IdleWorkers(1)
  /\ wrote = ZeroForce(1)

NextDriver ==
  \/ DrvStart
  \/ DrvKernel
  \/ DrvTop
  \/ DrvKickDrift
  \/ DrvKick2

SpecDriver == InitDriver /\ [][NextDriver]_vars

\* The particle, by its index in the input file, that a value belongs to:
\* the one whose velocity was kicked, whose position drifted, or at whose
\* position the force was computed.
RECURSIVE Origin(_)
Origin(t) ==
  IF t[1] = 0 THEN t[3]
  ELSE IF t[1] = 1 THEN Origin(t[3])
  ELSE IF t[1] = 2 THEN Origin(t[2])
  ELSE Origin(t[4][t[7]])

\* v is the first kick of v.3 with the force f1 that kernel call c returned
\* for this particle, which was then at x0, y0 with mass m.
FirstKickOf(v, a, c, x0, y0, m) ==
  /\ v[1] = 1 /\ v[2] = 1 /\ v[5] = m
  /\ LET f1 == v[4]
     IN  /\ f1[1] = 3 /\ f1[2] = c /\ f1[3] = a
         /\ f1[4][f1[7]] = x0
         /\ f1[5][f1[7]] = y0
         /\ f1[6][f1[7]] = m

(***************************************************************************)
(* C17.  In every time step of the driver, each particle in turn gets its  *)
(* half-kick with the force of the previous kernel call and at once its    *)
(* drift with the kicked velocity; when all have drifted there is exactly  *)
(* one kernel call, on the drifted positions; the second half-kick uses    *)
(* the forces of that call and no position changes between the call and    *)
(* that kick; and the position, velocity, mass and force held at one index *)
(* always belong to the same particle.                                     *)
(***************************************************************************)
C17_StepOrder ==
  /\ pc \in {"kernel", "top", "kick1", "kick2"} =>
       \A i \in Idx(sys.N) :
         /\ Origin(sys.pos_x[i]) = Origin(sys.mass[i])
         /\ Origin(sys.pos_y[i]) = Origin(sys.mass[i])
         /\ Origin(sys.vx[i]) = Origin(sys.mass[i])
         /\ Origin(sys.vy[i]) = Origin(sys.mass[i])
         /\ Origin(sys.fx[i]) = Origin(sys.mass[i])
         /\ Origin(sys.fy[i]) = Origin(sys.mass[i])
  /\ (pc = "kernel" /\ call_count > 0) =>
       \A i \in Idx(sys.N) :
         /\ sys.pos_x[i] = <<2, sys.pos_x[i][2], sys.vx[i]>>
         /\ sys.pos_y[i] = <<2, sys.pos_y[i][2], sys.vy[i]>>
         /\ sys.vx[i][4] = sys.fx[i]
         /\ sys.vy[i][4] = sys.fy[i]
         /\ sys.fx[i][7] = i
         /\ FirstKickOf(sys.vx[i], 0, call_count, sys.pos_x[i][2],
                        sys.pos_y[i][2], sys.mass[i])
         /\ FirstKickOf(sys.vy[i], 1, call_count, sys.pos_x[i][2],
                        sys.pos_y[i][2], sys.mass[i])
  /\ (pc = "top" /\ drv.step > 0) =>
       /\ call_count = drv.step + 1
       /\ \A i \in Idx(sys.N) :
            /\ sys.fx[i] = <<3, call_count, 0, sys.pos_x, sys.pos_y,
                             sys.mass, i>>
            /\ sys.fy[i] = <<3, call_count, 1, sys.pos_x, sys.pos_y,
                             sys.mass, i>>
            /\ sys.vx[i] = <<1, 2, sys.vx[i][3], sys.fx[i], sys.mass[i]>>
            /\ sys.vy[i] = <<1, 2, sys.vy[i][3], sys.fy[i], sys.mass[i]>>
            /\ sys.pos_x[i] = <<2, sys.pos_x[i][2], sys.vx[i][3]>>
            /\ sys.pos_y[i] = <<2, sys.pos_y[i][2], sys.vy[i][3]>>
            /\ FirstKickOf(sys.vx[i][3], 0, call_count - 1, sys.pos_x[i][2],
                           sys.pos_y[i][2], sys.mass[i])
            /\ FirstKickOf(sys.vy[i][3], 1, call_count - 1, sys.pos_x[i][2],
                           sys.pos_y[i][2], sys.mass[i])

\* Two steps of two particles have been made, and the kernel calls have
\* left the second particle of the file at index 0.
C17_Witness ==
  /\ pc = "top"
  /\ drv.step = 2
  /\ sys.N = 2
  /\ Origin(sys.mass[0]) = 1
  /\ sys.vx[0][3][3][1] = 1

(***************************************************************************)
(* C17 as stated: the half-kick of all velocities comes before the drift   *)
(* of the positions, so that when a velocity gets its half-kick no         *)
(* position has changed since the kernel call whose force is used.         *)
(***************************************************************************)
C17_KicksBeforeDrifts ==
  /\ C17_StepOrder
  /\ (pc = "kick1" /\ bi < sys.N) =>
       /\ sys.pos_x = sys.fx[bi][4]
       /\ sys.pos_y = sys.fx[bi][5]

(***************************************************************************)
(* C19.  A driver started with N <= 0, theta <= 0, dt <= 0 or an input     *)
(* file that cannot be read leaves line 27 only to exit with status 1,     *)
(* with no kernel call made, no step made and no output file created.      *)
(***************************************************************************)
C19_InvalidStartExits ==
  (/\ pc # "main"
   /\ \/ drv.N <= 0
      \/ config.theta_max <= 0
      \/ drv.dt <= 0
      \/ drv.file # "ok") =>
    /\ pc = "exit1"
    /\ call_count = 0
    /\ drv.step = 0
    /\ drv.files = {}

(***************************************************************************)
(* galsim.c:170-194, the velocity loop of the legacy driver (TWO_ORDER is  *)
(* 1, line 7).  It is an omp parallel for with schedule(dynamic,           *)
(* CHUNK_SIZE) and num_threads(n_threads): each thread of the team takes   *)
(* the next CHUNK_SIZE iterations whenever it has none.  new_acc_x and     *)
(* new_acc_y are declared in main at line 62, outside the loop, and the    *)
(* pragma has no private clause: the team shares them.  A thread at        *)
(* iteration i is before one of the six statements of lines 175-180        *)
(* (at = 1 .. 6); at = 0 is a thread with no iteration.  Reads and writes  *)
(* of the shared variables from different threads are unordered; the       *)
(* statements are interleaved here in every order, which covers a build    *)
(* that keeps a thread's own value in a register (no interleaving seen)    *)
(* and one that reads memory again.                                        *)
(*                                                                         *)
(* The arithmetic is on integers: fx[i] = i + 1, fy[i] = -(i + 1),         *)
(* mass_inver[i] = 1 and delta_t = 2, so that 0.5 * delta_t = 1, and the   *)
(* velocities and accelerations start at 0.                                *)
(***************************************************************************)
CHUNK_SIZE == 8
GalN == 9

GalFrame ==
  UNCHANGED <<sys, config, version, clusters, clusters_size, call_count,
              arena, arena_N, heap, root, pc, bi, next_it, wk, wrote, a_ret,
              a_live, a_op, trav, enc, drv, rec, km>>

\* A thread without work takes the next chunk.
GalTake(t) ==
  /\ pc = "velocity"
  /\ gal.th[t].at = 0
  /\ gal.next < GalN
  /\ gal' = [gal EXCEPT
               !.th[t] = [i |-> gal.next,
                          hi |-> Min2(gal.next + CHUNK_SIZE, GalN), at |-> 1],
               !.next = Min2(gal.next + CHUNK_SIZE, GalN)]
  /\ GalFrame

\* One statement of lines 175-180 by thread t.
GalStatement(t) ==
  /\ pc = "velocity"
  /\ gal.th[t].at > 0
  /\ LET i == gal.th[t].i
         at == gal.th[t].at
         g == CASE at = 1 -> [gal EXCEPT !.new_acc_x = (i + 1) * 1]
                [] at = 2 -> [gal EXCEPT !.new_acc_y = (0 - (i + 1)) * 1]
                [] at = 3 -> [gal EXCEPT
                                !.vx[i] = @ + 1 * (gal.new_acc_x + gal.acc_x[i])]
                [] at = 4 -> [gal EXCEPT
                                !.vy[i] = @ + 1 * (gal.new_acc_y + gal.acc_y[i])]
                [] at = 5 -> [gal EXCEPT !.acc_x[i] = gal.new_acc_x]
                [] at = 6 -> [gal EXCEPT !.acc_y[i] = gal.new_acc_y]
     IN  gal' = [g EXCEPT
                   !.th[t] = IF at < 6 THEN [@ EXCEPT !.at = at + 1]
                             ELSE IF i + 1 < @.hi
                                    THEN [@ EXCEPT !.i = i + 1, !.at = 1]
                                    ELSE [@ EXCEPT !.at = 0]]
  /\ GalFrame

\* The loop is entered after barnes_hut has returned (line 166), with a
\* team of n_threads threads.
InitGal ==
  /\ InitStatics
  /\ trav = NoTraversal
  /\ enc = NoCodes
  /\ drv = NoDriver
  /\ rec = << >>
  /\ sys = Rows(1, 1)
  /\ version = 0
  /\ config \in [theta_max : {0}, k_clusters : {0}, n_threads : 1 .. MaxThreads,
                 use_arena : {FALSE}]
  /\ gal = [next |-> 0,
            th |-> [t \in 1 .. config.n_threads |->
                      [i |-> 0, hi |-> 0, at |-> 0]],
            new_acc_x |-> 0, new_acc_y |-> 0,
            vx |-> [i \in Idx(GalN) |-> 0], vy |-> [i \in Idx(GalN) |-> 0],
            acc_x |-> [i \in Idx(GalN) |-> 0],
            acc_y |-> [i \in Idx(GalN) |-> 0]]
  /\ pc = "velocity"
  /\ wk = IdleWorkers(1)
  /\ wrote = ZeroForce(1)

NextGal ==
  \E t \in 1 .. config.n_threads :
    \/ GalTake(t)
    \/ GalStatement(t)

SpecGal == InitGal /\ [][NextGal]_vars

(***************************************************************************)
(* C18.  Outside force evaluation one thread runs: in the velocity update  *)
(* of the integrator at most one thread is inside the loop body, no        *)
(* variable is written by one thread between another thread's write and    *)
(* its read of it, and so every particle ends with the acceleration and    *)
(* the velocity made from its own force.                                   *)
(***************************************************************************)
C18_IntegratorOneThread ==
  pc = "velocity" =>
    /\ Cardinality({t \in DOMAIN gal.th : gal.th[t].at > 0}) <= 1
    /\ \A t \in DOMAIN gal.th :
         /\ gal.th[t].at \in {2, 3, 4, 5, 6} => gal.new_acc_x = gal.th[t].i + 1
         /\ gal.th[t].at \in {3, 4, 5, 6} =>
              gal.new_acc_y = 0 - (gal.th[t].i + 1)
    /\ (gal.next = GalN /\ \A t \in DOMAIN gal.th : gal.th[t].at = 0) =>
         \A i \in Idx(GalN) :
           /\ gal.acc_x[i] = i + 1
           /\ gal.vx[i] = i + 1
           /\ gal.acc_y[i] = 0 - (i + 1)
           /\ gal.vy[i] = 0 - (i + 1)

(***************************************************************************)
(* kernels/v5_parallel.c:162-281 as a function of the particle arrays and  *)
(* theta, for arrays that are in the order the kernel would leave them in: *)
(* the root and the insertions of lines 236-245 in index order, then       *)
(* compute_force_single for every index.  The tree is built on the heap.   *)
(***************************************************************************)
RECURSIVE V5Inserted(_, _, _, _)
V5Inserted(T, tree, s, i) ==
  IF i >= s.N \/ T.halt # ""
    THEN T
    ELSE V5Inserted(insert(T, tree, s.pos_x[i], s.pos_y[i], s.mass[i], i),
                    tree, s, i + 1)

compute_force_v5_parallel(s, theta) ==
  LET T1 == V5Root([arena |-> NullArena, heap |-> << >>, a |-> FALSE,
                    halt |-> "", ret |-> NULL],
                   s.pos_x, s.pos_y, s.mass,
                   SquareBox(s.pos_x, s.pos_y, s.N))
  IN  Bind(LAMBDA T2 :
             [mem |-> T2.heap, root |-> T1.ret,
              f |-> [i \in Idx(s.N) |->
                       compute_force_single(T2.heap, T1.ret, s.pos_x[i],
                                            s.pos_y[i], i, theta).f]],
           V5Inserted(T1, T1.ret, s, 1))

\* The particle leaves of a tree, each as its PID with the term it adds.
LeavesOf(mem) ==
  {[PID |-> mem[h].PID, term |-> _compute_force(mem[h])] :
     h \in {g \in DOMAIN mem : mem[g].PID >= 0}}

(***************************************************************************)
(* C20.  On the particles and the theta of a v4 call, v5 with one thread   *)
(* builds the same tree as v4 (the same particle leaves, the same mass at  *)
(* the root) and returns for every particle the same force: the same node  *)
(* contributions, added in the same order.                                 *)
(***************************************************************************)
C20_V5MatchesV4 ==
  (version = 4 /\ pc \in {"force", "done"}) =>
    Bind(LAMBDA v5 :
           /\ pc = "force" =>
                /\ LeavesOf(SubSeq(Mem(Store), 1, Live(Store)))
                     = LeavesOf(v5.mem)
                /\ Node(root).mass = v5.mem[v5.root].mass
           /\ pc = "done" => sys.fx = v5.f,
         compute_force_v5_parallel(sys, config.theta_max))

(***************************************************************************)
(* C21.  When a serial tree kernel (v2, v3, v4) returns from a call with   *)
(* theta = 0 on particles at pairwise distinct positions, the force on     *)
(* every particle i is made of the terms of the direct sum of v1: one term *)
(* for every particle j # i, with the mass and position of j, and no       *)
(* other.                                                                  *)
(***************************************************************************)
C21_SerialIsDirectSum ==
  (version \in {2, 3, 4} /\ pc = "done" /\ config.theta_max = 0
     /\ DistinctPositions) =>
    \A i \in Idx(sys.N) :
      BagOf(sys.fx[i])
        = BagOf(NaiveForce(sys.pos_x, sys.pos_y, sys.mass, sys.N, i))

(***************************************************************************)
(* C22.  In the insertion loop of a tree kernel: when the particle         *)
(* inserted is at the position of a particle inserted before it, the       *)
(* insertion allocates no node, and a leaf keeps its PID and gains the     *)
(* particle's mass; when it is at the position of none of them, the tree   *)
(* has a leaf of its own for it afterwards.                                *)
(***************************************************************************)
C22_MergeIffCoincident ==
  [][(pc = "build" /\ version \in 2 .. 5 /\ bi' = bi + 1) =>
       IF \E j \in 0 .. bi - 1 : SamePlace(j, bi)
         THEN /\ Live(Store') = Live(Store)
              /\ \E h \in Handles :
                   /\ Node(h).PID >= 0
                   /\ NodeAt(Store', h).PID = Node(h).PID
                   /\ NodeAt(Store', h).mass = Node(h).mass + sys.mass[bi]
         ELSE \E h \in 1 .. Live(Store') : NodeAt(Store', h).PID = bi]_vars

(***************************************************************************)
(* v2_barnes_hut/barnes_hut.c:5-70, the builder of the stand-alone v2      *)
(* program.  A node is [x_min, x_max, y_min, y_max, children, mx, my,      *)
(* mass, is_leaf, particle_idx] with mx = x * mass and my = y * mass; the  *)
(* nodes are malloc'ed (heap).  insert is recursive; rec holds its         *)
(* activations, each [node, idx, at]: at = "enter" before line 31,         *)
(* "quad" at line 48 (after the call of line 44 returned, or without it),  *)
(* "update" at line 65 (after the call of line 63 returned).  The process  *)
(* stack has room for RecLimit activations; one more is a stack overflow.  *)
(***************************************************************************)
RecLimit == 24

\* Lines 5-20 create_node, appended to the heap.
create_node_v2(mem, x_min, x_max, y_min, y_max) ==
  Append(mem, [x_min |-> x_min, x_max |-> x_max, y_min |-> y_min,
               y_max |-> y_max, children |-> [q \in Quadrants |-> NULL],
               mx |-> 0, my |-> 0, mass |-> 0, is_leaf |-> TRUE,
               particle_idx |-> NoPID])

RecFrame ==
  UNCHANGED <<sys, config, version, clusters, clusters_size, call_count,
              arena, arena_N, root, next_it, wk, wrote, a_ret, a_live, a_op,
              trav, enc, drv, gal, km>>

\* Lines 109-111: the loop calls insert(root, i, ...) for the next particle,
\* or is over.
RecCall ==
  /\ pc = "insert"
  /\ rec = << >>
  /\ IF bi < sys.N
       THEN /\ rec' = <<[node |-> root, idx |-> bi, at |-> "enter"]>>
            /\ UNCHANGED <<pc, bi>>
       ELSE /\ pc' = "done"
            /\ UNCHANGED <<rec, bi>>
  /\ UNCHANGED heap
  /\ RecFrame

\* Lines 30-70: the innermost activation runs to its next call or to its
\* return.
RecStep ==
  /\ pc = "insert"
  /\ rec # << >>
  /\ LET f == rec[Len(rec)]
         n == heap[f.node]
         px == sys.pos_x[f.idx]
         py == sys.pos_y[f.idx]
         m == sys.mass[f.idx]
         below == SubSeq(rec, 1, Len(rec) - 1)
         return == IF Len(rec) = 1 THEN bi + 1 ELSE bi
         call(stack) == IF Len(stack) > RecLimit
                          THEN /\ pc' = "segv"
                               /\ rec' = stack
                          ELSE /\ pc' = pc
                               /\ rec' = stack
     IN  CASE f.at = "enter" /\ n.mass = 0 /\ n.is_leaf /\ n.particle_idx = NoPID ->
                \* lines 31-37
                /\ heap' = [heap EXCEPT ![f.node] =
                              [n EXCEPT !.mass = m, !.mx = px * m, !.my = py * m,
                                        !.particle_idx = f.idx]]
                /\ rec' = below
                /\ bi' = return
                /\ UNCHANGED pc
           [] f.at = "enter" /\ n.is_leaf /\ n.particle_idx # NoPID ->
                \* lines 39-45 with the call of line 44
                /\ heap' = [heap EXCEPT ![f.node] =
                              [n EXCEPT !.is_leaf = FALSE,
                                        !.particle_idx = NoPID]]
                /\ call(below \o <<[f EXCEPT !.at = "quad"],
                                   [node |-> f.node, idx |-> n.particle_idx,
                                    at |-> "enter"]>>)
                /\ UNCHANGED bi
           [] f.at = "update" ->
                \* lines 65-69
                /\ heap' = [heap EXCEPT ![f.node] =
                              [n EXCEPT !.mx = n.mx + px * m,
                                        !.my = n.my + py * m,
                                        !.mass = n.mass + m]]
                /\ rec' = below
                /\ bi' = return
                /\ UNCHANGED pc
           [] OTHER ->
                \* lines 39-41 for a leaf without particle, then lines 48-63
                LET mid_x == Mid(n.x_min, n.x_max)
                    mid_y == Mid(n.y_min, n.y_max)
                    quad == B2I(px > mid_x) + 2 * B2I(py > mid_y)
                    odd == quad % 2 = 1
                    high == quad \div 2 = 1
                    fresh == n.children[quad] = NULL
                    mem == IF fresh
                             THEN create_node_v2(heap,
                                    IF odd THEN mid_x ELSE n.x_min,
                                    IF odd THEN n.x_max ELSE mid_x,
                                    IF high THEN mid_y ELSE n.y_min,
                                    IF high THEN n.y_max ELSE mid_y)
                             ELSE heap
                    child == IF fresh THEN Len(mem) ELSE n.children[quad]
                IN  /\ heap' = [mem EXCEPT ![f.node] =
                                  [n EXCEPT !.children[quad] = child,
                                            !.is_leaf = FALSE,
                                            !.particle_idx = NoPID]]
                    /\ call(below \o <<[f EXCEPT !.at = "update"],
                                       [node |-> child, idx |-> f.idx,
                                        at |-> "enter"]>>)
                    /\ UNCHANGED bi
  /\ RecFrame

\* barnes_hut (lines 94-111) up to the insertion loop: the root spans the
\* bounding box of the positions.
InitRec ==
  /\ clusters = << >>
  /\ clusters_size = << >>
  /\ call_count = 0
  /\ arena = NullArena
  /\ arena_N = 0
  /\ bi = 0
  /\ next_it = 0
  /\ a_ret = NULL
  /\ a_live = << >>
  /\ a_op = "none"
  /\ km = NoKMeans
  /\ trav = NoTraversal
  /\ enc = NoCodes
  /\ drv = NoDriver
  /\ gal = NoTeam
  /\ version = 0
  /\ \E n \in 2 .. MaxN : sys \in Particles(n)
  /\ LET box == RawBox(sys.pos_x, sys.pos_y, sys.N)
     IN  heap = create_node_v2(<< >>, box.LB, box.RB, box.DB, box.UB)
  /\ root = 1
  /\ config = [theta_max |-> 0, k_clusters |-> 0, n_threads |-> 1,
               use_arena |-> FALSE]
  /\ rec = << >>
  /\ pc = "insert"
  /\ wk = IdleWorkers(1)
  /\ wrote = ZeroForce(1)

NextRec ==
  \/ RecCall
  \/ RecStep

SpecRec == InitRec /\ [][NextRec]_vars

\* C23: the recursion of insert is bounded for every input: while a build
\* runs, the activations of insert fit the stack, and the build never
\* overflows it.
C23_BoundedRecursion ==
  /\ pc # "segv"
  /\ Len(rec) <= RecLimit

(***************************************************************************)
(* C24.  Every iteration of the force loop treats the node n it pops by    *)
(* the rule: the leaf of the particle itself is skipped; another leaf, or  *)
(* an internal node with s * s < theta * theta * r * r (s the width of n,  *)
(* r the distance from the particle to n's centre of mass), adds n's       *)
(* aggregate once and none of its children is visited; any other node      *)
(* adds nothing and exactly its non-NULL children are put on the stack to  *)
(* be visited.                                                             *)
(***************************************************************************)
C24_VisitRule ==
  [][(pc = "stack" /\ trav.stack # << >>) =>
       LET sp == Len(trav.stack)
           n == CombMem[trav.stack[sp]]
           rest == SubSeq(trav.stack, 1, sp - 1)
           kids == {n.child[q] : q \in Quadrants} \ {NULL}
           sp2 == Len(trav'.stack)
       IN  IF n.PID = bi
             THEN /\ trav'.stack = rest
                  /\ trav'.acc.f = trav.acc.f
           ELSE IF n.PID # NoPID \/ ThetaAccepts(n, 0, 0, config.theta_max)
             THEN /\ trav'.stack = rest
                  /\ trav'.acc.f = Append(trav.acc.f, _compute_force(n))
           ELSE /\ trav'.acc.f = trav.acc.f
                /\ sp2 = sp - 1 + Cardinality(kids)
                /\ SubSeq(trav'.stack, 1, sp - 1) = rest
                /\ {trav'.stack[k] : k \in sp .. sp2} = kids]_vars

(***************************************************************************)
(* C25.  In the tree after every insertion, every child in slot q of a     *)
(* node has as its bounds the quarter of the node that                     *)
(* q = ((py > mid_y) << 1) | (px > mid_x) denotes: bit 0 of q set, x from  *)
(* mid_x to the node's right bound, else from its left bound to mid_x;     *)
(* bit 1 of q set, y from mid_y to the upper bound, else from the lower    *)
(* bound to mid_y.                                                         *)
(***************************************************************************)
C25_SlotIsQuarter ==
  (version \in 2 .. 5 /\ TreeBuilt) =>
    \A h \in Handles :
      \A q \in Quadrants :
        Node(h).child[q] # NULL =>
          LET n == Node(h)
              c == Node(n.child[q])
              mid_x == Mid(n.LB, n.RB)
              mid_y == Mid(n.DB, n.UB)
          IN  /\ c.LB = IF q % 2 = 1 THEN mid_x ELSE n.LB
              /\ c.RB = IF q % 2 = 1 THEN n.RB ELSE mid_x
              /\ c.DB = IF q \div 2 = 1 THEN mid_y ELSE n.DB
              /\ c.UB = IF q \div 2 = 1 THEN n.UB ELSE mid_y

(***************************************************************************)
(* C26.  In the tree after every insertion the stored position of every    *)
(* leaf lies inside the stored bounds of that leaf, bounds included        *)
(* (mx = pos_x * mass and my = pos_y * mass).                              *)
(***************************************************************************)
C26_LeafInsideBounds ==
  (version = 5 /\ TreeBuilt) =>
    \A h \in Handles :
      Node(h).PID >= 0 =>
        LET n == Node(h)
        IN  /\ n.LB * n.mass <= n.mx
            /\ n.mx <= n.RB * n.mass
            /\ n.DB * n.mass <= n.my
            /\ n.my <= n.UB * n.mass

(***************************************************************************)
(* C27.  In every call of v5 with the arena, the first and the later ones: *)
(* the root is slot 0 of the arena (handle 1); every slot in use has had   *)
(* every field written, and its children are slots in use; and the tree    *)
(* handed to the force loop fills the slots in use with exactly the nodes  *)
(* that a build of the same particles in fresh memory makes, so nothing    *)
(* that an earlier call left in the arena is part of it.                   *)
(***************************************************************************)
C27_ArenaFreshEachCall ==
  (version = 5 /\ config.use_arena /\ pc \in {"build", "force"}) =>
    /\ root = 1
    /\ arena.used \in 1 .. arena.size
    /\ \A h \in 1 .. arena.used :
         LET n == arena.buffer[h]
         IN  /\ Junk \notin {n.LB, n.RB, n.DB, n.UB, n.mx, n.my, n.mass, n.PID}
             /\ \A q \in Quadrants : n.child[q] \in 0 .. arena.used
    /\ pc = "force" =>
         SubSeq(arena.buffer, 1, arena.used)
           = compute_force_v5_parallel(sys, config.theta_max).mem

\* A second call is building its tree, and the slot that the next
\* allocation returns still holds a node of the first call.
C27_Witness ==
  /\ version = 5
  /\ config.use_arena
  /\ call_count = 2
  /\ pc = "build"
  /\ arena.used >= 2
  /\ arena.used < arena.size
  /\ arena.buffer[arena.used + 1] # JunkNode
  /\ arena.buffer[arena.used + 1].PID >= 0

(***************************************************************************)
(* The legacy driver, galsim.c:83-137, up to the initial acceleration:     *)
(* the input file is read into the particle arrays (pos_x, pos_y, mass,    *)
(* vx, vy in sys; brightness and mass_inver in gal), z_order_sort of       *)
(* src/morton.c reorders them, and the accelerations are computed from     *)
(* the forces.  The file holds particles on the lattice, inside the        *)
(* region [-100000, 100000]^2 of line 105; particle i of the file has      *)
(* velocity and brightness i.  1.0 / m is kept as [num |-> 1, den |-> m],  *)
(* the force on the particle at index i as the index, and a product as     *)
(* the pair of its factors.                                                *)
(***************************************************************************)
RegionHalf == 100000
LegacyGridBits == 21

Reciprocal(m) == [num |-> 1, den |-> m]

\* floor(p * 2^n / w) and the remainder, for 0 <= p < w: long division, one
\* bit a step.
RECURSIVE BinFrac(_, _, _, _)
BinFrac(rem, w, n, q) ==
  IF n = 0
    THEN [q |-> q, rem |-> rem]
    ELSE BinFrac((2 * rem) % w, w, n - 1, 2 * q + (2 * rem) \div w)

\* morton.c:47-48 and 52-53: (unsigned int)((pos - LB) * scale) with
\* scale = (2^21 - 1) / width, as the set of the positions of its 1 bits:
\* floor(p * (2^21 - 1) / w) = q - [r < p] where p * 2^21 = q * w + r.
LegacyGridCoord(p, w) ==
  LET d == BinFrac(p, w, LegacyGridBits, 0)
      v == IF d.rem < p THEN d.q - 1 ELSE d.q
  IN  {b \in 0 .. LegacyGridBits - 1 : (v \div 2 ^ b) % 2 = 1}

\* morton.c:25-33 compare_entries, on codes kept as sets of bit positions.
compare_entries_legacy(ca, cb) ==
  LET diff == (ca \ cb) \cup (cb \ ca)
      top == CHOOSE b \in diff : \A c \in diff : c <= b
  IN  IF diff = {} THEN 0 ELSE IF top \in cb THEN 0 - 1 ELSE 1

\* morton.c:51-59: the orders qsort may leave the entries in.
LegacyOrders(px, py, n) ==
  LET code == [i \in Idx(n) |->
                 morton_encode_magicbits(
                   LegacyGridCoord(px[i] + RegionHalf, 2 * RegionHalf),
                   LegacyGridCoord(py[i] + RegionHalf, 2 * RegionHalf))]
      rank == [e \in Idx(n) |->
                 Cardinality({f \in Idx(n) :
                                compare_entries_legacy(code[f], code[e]) < 0})]
  IN  {[i \in Idx(n) |-> t[i + 1]] : t \in OrdersFrom({}, rank, n)}

LegacyFrame ==
  UNCHANGED <<config, version, clusters, clusters_size, call_count, arena,
              arena_N, heap, root, bi, next_it, wk, wrote, a_ret, a_live,
              a_op, trav, enc, drv, rec, km>>

\* galsim.c:83-92: the loop that reads the file, one pass.
LegacyRead ==
  /\ pc = "read"
  /\ gal' = [brightness |-> [i \in Idx(sys.N) |-> i],
             mass_inver |-> [i \in Idx(sys.N) |-> Reciprocal(sys.mass[i])],
             acc_x |-> << >>, acc_y |-> << >>]
  /\ pc' = "zsort"
  /\ UNCHANGED sys
  /\ LegacyFrame

\* galsim.c:111 with morton.c:35-84: pos_x, pos_y, mass, vx, vy and
\* brightness are permuted.
LegacySort ==
  /\ pc = "zsort"
  /\ \E ord \in LegacyOrders(sys.pos_x, sys.pos_y, sys.N) :
       /\ sys' = z_order_sort_nofx(sys, ord)
       /\ gal' = [gal EXCEPT !.brightness = PERMUTE(@, ord, sys.N)]
  /\ pc' = "accel"
  /\ LegacyFrame

\* galsim.c:131-138: the forces of barnes_hut, then
\* acc[i] = f[i] * mass_inver[i].
LegacyAccel ==
  /\ pc = "accel"
  /\ gal' = [gal EXCEPT
               !.acc_x = [i \in Idx(sys.N) |-> <<i, gal.mass_inver[i]>>],
               !.acc_y = [i \in Idx(sys.N) |-> <<i, gal.mass_inver[i]>>]]
  /\ pc' = "done"
  /\ UNCHANGED sys
  /\ LegacyFrame

InitLegacy ==
  /\ InitStatics
  /\ trav = NoTraversal
  /\ enc = NoCodes
  /\ drv = NoDriver
  /\ gal = NoTeam
  /\ rec = << >>
  /\ version = 0
  /\ \E n \in 1 .. MaxN : sys \in Particles(n)
  /\ config = [theta_max |-> 0, k_clusters |-> 1, n_threads |-> 1,
               use_arena |-> TRUE]
  /\ pc = "read"
  /\ wk = IdleWorkers(1)
  /\ wrote = ZeroForce(1)

NextLegacy ==
  \/ LegacyRead
  \/ LegacySort
  \/ LegacyAccel

SpecLegacy == InitLegacy /\ [][NextLegacy]_vars

(***************************************************************************)
(* C28.  In the legacy driver, after the initial Morton sort, at the       *)
(* acceleration computation and from then on, mass_inver[i] is the         *)
(* reciprocal of mass[i] for every index i.                                *)
(***************************************************************************)
C28_InverseMassFollowsSort ==
  pc \in {"accel", "done"} =>
    \A i \in Idx(sys.N) : gal.mass_inver[i] = Reciprocal(sys.mass[i])

(***************************************************************************)
(* C29.  In clustered mode, when the force loop of a kernel call starts    *)
(* (the call that ran k-means as well as the calls that reuse the          *)
(* clusters of an earlier one), the entries of clusters_size add up to N   *)
(* and the packed array clusters holds every index 0 .. N-1 exactly once.  *)
(***************************************************************************)
C29_ClustersPartition ==
  (version = 5 /\ config.k_clusters > 0 /\ pc = "force") =>
    /\ SumRange(clusters_size, 0, config.k_clusters - 1) = sys.N
    /\ \A p \in Idx(sys.N) : clusters[p] \in Idx(sys.N)
    /\ \A i \in Idx(sys.N) :
         Cardinality({p \in Idx(sys.N) : clusters[p] = i}) = 1

(***************************************************************************)
(* C30.  Whatever the uninitialised memory held, the call of kmeans that   *)
(* the current kernel call made ran its assign-and-update round at least   *)
(* once and at most MAX_ITERATIONS + 1 times, and the labels its packing   *)
(* read were all in 0 .. k-1.                                              *)
(***************************************************************************)
C30_KMeansRounds ==
  (/\ version = 5
   /\ config.k_clusters > 0
   /\ pc \in {"build", "force", "done"}
   /\ km.call = call_count) =>
    /\ km.rounds \in 1 .. MAX_ITERATIONS + 1
    /\ \A i \in Idx(sys.N) : km.labels[i] \in Idx(config.k_clusters)

=============================================================================
